---- MODULE Spec2Model ----
(***************************************************************************)
(* uncov: configuration resolution and coverage-summary report pipeline.   *)
(*                                                                         *)
(* Numbers are fixed point, in hundredths: the JavaScript number 10 is     *)
(* 1000, 5.26 is 526, 100 is 10000.  A JSON value is a record              *)
(* [t, n, s, b, l] whose t is the JavaScript type of the value             *)
(* ("undefined" for an absent field, "null", "number", "string",           *)
(* "boolean", "array", "object") and whose other fields hold the payload   *)
(* of that type.                                                           *)
(***************************************************************************)
EXTENDS Integers, Sequences, FiniteSets, TLC

VARIABLES
    \* the project directory
    pkgJson,        \* package.json
    configFile,     \* uncov.config.json
    disk,           \* coverage files, by path
    \* loadConfig(cliOverrides, cwd)
    cliOverrides, loaded,
    \* mergeConfigs(...configs)
    configs, merged,
    \* filterBelowThreshold(summary, threshold) / sortByPercentage(files)
    summary, threshold, filesBelow, files, sortedFiles,
    \* one run of the command line / of reportCommand
    pc, entry, argv, options, config, coveragePath, stdout, stderr, exitCode,
    \* validateCoverageSummary(summary): how the call ended, and the value
    \* it returned
    validated, returned,
    \* validatePath(targetPath, baseDir)
    targetPath, baseDir, checked,
    \* readJson, writeJson, readText, writeText, appendLine on a file system:
    \* fsys is the file system, before what it was when the last call began,
    \* call the options of the calls, how many were made and the file system
    \* the first one found, outcome what the last call did, appended the lines
    \* appendLine was given
    fsys, before, call, outcome, appended,
    \* two invocations of reportCommand at once: the run variables above
    \* belong to the invocation that is running, other holds those of the
    \* one that is waiting, active tells which one runs; interfered tells
    \* whether another process has touched the coverage file meanwhile
    other, active, interfered,
    \* initCommand: project is the directory it works in, runs tells the
    \* options, how many runs have begun, what the directory was when the
    \* running one began, the codes the finished ones returned and the files
    \* the running one has written
    project, runs,
    \* array objects: arrays gives what the array at each address holds,
    \* passed the addresses of the arrays callers gave inside partial
    \* configs, calls the calls made so far, each with the configuration it
    \* returned and the values its arguments had
    arrays, passed, calls

vars == <<pkgJson, configFile, disk, cliOverrides, loaded, configs, merged,
          summary, threshold, filesBelow, files, sortedFiles,
          pc, entry, argv, options, config, coveragePath, stdout, stderr, exitCode,
          validated, returned, targetPath, baseDir, checked,
          fsys, before, call, outcome, appended,
          other, active, interfered, project, runs, arrays, passed, calls>>

fsVars == <<pkgJson, configFile, disk>>
configVars == <<cliOverrides, loaded>>
mergeVars == <<configs, merged>>
coverageVars == <<summary, threshold, filesBelow, files, sortedFiles>>
runVars == <<pc, entry, argv, options, config, coveragePath, stdout, stderr, exitCode>>
pathVars == <<targetPath, baseDir, checked>>
fileVars == <<fsys, before, call, outcome, appended>>
procVars == <<other, active, interfered>>
initVars == <<project, runs>>
heapVars == <<arrays, passed, calls>>
utilVars == <<validated, returned, pathVars, fileVars, procVars, initVars, heapVars>>

----------------------------------------------------------------------------
(* JSON values *)

JUndef == [t |-> "undefined", n |-> 0, s |-> "", b |-> FALSE, l |-> <<>>]
JNull == [t |-> "null", n |-> 0, s |-> "", b |-> FALSE, l |-> <<>>]
JNum(x) == [t |-> "number", n |-> x, s |-> "", b |-> FALSE, l |-> <<>>]
JStr(x) == [t |-> "string", n |-> 0, s |-> x, b |-> FALSE, l |-> <<>>]
JBool(x) == [t |-> "boolean", n |-> 0, s |-> "", b |-> x, l |-> <<>>]
JArr(x) == [t |-> "array", n |-> 0, s |-> "", b |-> FALSE, l |-> x]

\* an object read as a configuration: the four fields the code looks at
\* (every other field of the object is ignored)
Obj(th, ex, fl, cp) ==
    [threshold |-> th, exclude |-> ex, failOnLow |-> fl, coveragePath |-> cp]

EmptyObj == Obj(JUndef, JUndef, JUndef, JUndef)

Fields == {"threshold", "exclude", "failOnLow", "coveragePath"}

----------------------------------------------------------------------------
(* src/lib/config.ts *)

DEFAULT_CONFIG ==
    Obj(JNum(1000), JArr(<<>>), JBool(FALSE), JStr("coverage/coverage-summary.json"))

\* a file of the project directory: state is "absent", "unreadable" (it
\* exists and reading it fails), "badjson" (its text is not JSON) or "json";
\* a JSON file holds a value of type top; uncov is the type of the uncov
\* field of a package.json object and fields are the configuration fields
\* of the object (of its uncov object, for package.json)
File(state, top, uncov, fields) ==
    [state |-> state, top |-> top, uncov |-> uncov, fields |-> fields]

\* variant: every path is taken to exist
fileExists_Always(f) == TRUE

fileExists(f) == f.state # "absent"

\* readJson: ok with the parsed value, or the failure it throws
readJson(f) ==
    IF f.state \in {"absent", "unreadable"} THEN [ok |-> FALSE, err |-> "ReadFailure", value |-> f]
    ELSE IF f.state = "badjson" THEN [ok |-> FALSE, err |-> "ParseFailure", value |-> f]
    ELSE [ok |-> TRUE, err |-> "", value |-> f]

\* variant: the upper limit is not checked
ThresholdAccepted_NoUpper(v) == v.t = "number" /\ v.n >= 0

ThresholdAccepted(v) == v.t = "number" /\ v.n >= 0 /\ v.n <= 10000

ExcludeAccepted(v) ==
    v.t = "array" /\ \A i \in 1..Len(v.l) : v.l[i].t = "string"

\* variant: the threshold is copied whenever it is a number
validatePartialConfig_Unchecked(top, fields) ==
    IF top = "null" THEN [ok |-> FALSE, value |-> EmptyObj]
    ELSE LET obj == IF top = "object" THEN fields ELSE EmptyObj
         IN [ok |-> TRUE,
             value |-> Obj(IF obj.threshold.t = "number" THEN obj.threshold ELSE JUndef,
                           IF ExcludeAccepted(obj.exclude) THEN obj.exclude ELSE JUndef,
                           IF obj.failOnLow.t = "boolean" THEN obj.failOnLow ELSE JUndef,
                           IF obj.coveragePath.t = "string" THEN obj.coveragePath ELSE JUndef)]

\* validatePartialConfig(obj): reading a property of null throws a TypeError;
\* a string, a number or an array has none of the four properties
validatePartialConfig(top, fields) ==
    IF top = "null" THEN [ok |-> FALSE, value |-> EmptyObj]
    ELSE LET obj == IF top = "object" THEN fields ELSE EmptyObj
         IN [ok |-> TRUE,
             value |-> Obj(IF ThresholdAccepted(obj.threshold) THEN obj.threshold ELSE JUndef,
                           IF ExcludeAccepted(obj.exclude) THEN obj.exclude ELSE JUndef,
                           IF obj.failOnLow.t = "boolean" THEN obj.failOnLow ELSE JUndef,
                           IF obj.coveragePath.t = "string" THEN obj.coveragePath ELSE JUndef)]

None == [some |-> FALSE, value |-> EmptyObj]
Some(v) == [some |-> TRUE, value |-> v]

\* the try body of readPackageJsonConfig: ok is FALSE when it throws
PackageJsonBody(f) ==
    LET r == readJson(f)
    IN IF ~r.ok THEN [ok |-> FALSE, value |-> None]
       ELSE IF r.value.top = "null" THEN [ok |-> FALSE, value |-> None]   \* pkg.uncov of null
       ELSE LET uncovType == IF r.value.top = "object" THEN r.value.uncov ELSE "undefined"
            IN IF uncovType \in {"object", "array"}
               THEN LET v == validatePartialConfig(uncovType, r.value.fields)
                    IN [ok |-> v.ok, value |-> Some(v.value)]
               ELSE [ok |-> TRUE, value |-> None]

\* variant: no catch around the body
readPackageJsonConfig_NoCatch(f) ==
    IF ~fileExists(f) THEN [threw |-> FALSE, value |-> None]
    ELSE LET r == PackageJsonBody(f)
         IN [threw |-> ~r.ok, value |-> r.value]

\* readPackageJsonConfig(cwd): the validated uncov object, or null
readPackageJsonConfig(f) ==
    IF ~fileExists(f) THEN [threw |-> FALSE, value |-> None]
    ELSE LET r == PackageJsonBody(f)
         IN IF r.ok THEN [threw |-> FALSE, value |-> r.value]
            ELSE [threw |-> FALSE, value |-> None]

findConfigFile(f) == fileExists(f)

\* variant: a field is assigned without the undefined test
MergeStep_Assign(result, c) == [k \in Fields |-> c[k]]

MergeStep(result, c) ==
    [k \in Fields |-> IF c[k].t # "undefined" THEN c[k] ELSE result[k]]

RECURSIVE MergeFrom(_, _, _)
MergeFrom(result, cs, i) ==
    IF i > Len(cs) THEN result ELSE MergeFrom(MergeStep(result, cs[i]), cs, i + 1)

mergeConfigs(cs) == MergeFrom(DEFAULT_CONFIG, cs, 1)

\* the try body of loadConfig around uncov.config.json: ok is FALSE when it throws
ConfigFileBody(f) ==
    LET r == readJson(f)
    IN IF ~r.ok THEN [ok |-> FALSE, value |-> EmptyObj]
       ELSE validatePartialConfig(r.value.top, r.value.fields)

\* step 2 of loadConfig: what the config file adds to configs
ConfigFilePush(f) ==
    IF ~findConfigFile(f) THEN [threw |-> FALSE, push |-> <<>>]
    ELSE LET r == ConfigFileBody(f)
         IN IF r.ok THEN [threw |-> FALSE, push |-> <<r.value>>]
            ELSE [threw |-> FALSE, push |-> <<>>]

\* variant: the config file is pushed before the package.json section
loadConfig_FileFirst(overrides, pkg, cfg) ==
    LET pkgConfig == readPackageJsonConfig(pkg)
        fileConfig == ConfigFilePush(cfg)
        c1 == IF pkgConfig.value.some THEN <<pkgConfig.value.value>> ELSE <<>>
        c2 == fileConfig.push \o c1
        c3 == IF overrides.some THEN Append(c2, overrides.value) ELSE c2
    IN [threw |-> pkgConfig.threw \/ fileConfig.threw, value |-> mergeConfigs(c3)]

\* loadConfig(cliOverrides, cwd); overrides is None when the caller gave none
loadConfig(overrides, pkg, cfg) ==
    LET pkgConfig == readPackageJsonConfig(pkg)
        fileConfig == ConfigFilePush(cfg)
        c1 == IF pkgConfig.value.some THEN <<pkgConfig.value.value>> ELSE <<>>
        c2 == c1 \o fileConfig.push
        c3 == IF overrides.some THEN Append(c2, overrides.value) ELSE c2
    IN [threw |-> pkgConfig.threw \/ fileConfig.threw, value |-> mergeConfigs(c3)]

----------------------------------------------------------------------------
(* src/lib/coverage.ts *)

\* a value found under "lines": t is its JavaScript type
Metric(t, total, covered, pct) ==
    [t |-> t, total |-> total, covered |-> covered, pct |-> pct]

\* a value found under a key of the summary: t is its JavaScript type
FileCov(t, lines) == [t |-> t, lines |-> lines]

Entry(key, value) == [key |-> key, value |-> value]

\* parsed JSON handed to validateCoverageSummary: a value of type top; the
\* entries of an object are its keys and values in iteration order
Data(top, entries) == [top |-> top, entries |-> entries]

\* variant: pct is not looked at
isValidCoverageMetric_NoPct(m) ==
    /\ m.t = "object"
    /\ m.total.t = "number"
    /\ m.covered.t = "number"

isValidCoverageMetric(m) ==
    /\ m.t = "object"
    /\ m.total.t = "number"
    /\ m.covered.t = "number"
    /\ m.pct.t = "number"

isValidFileCoverage(v) == v.t = "object" /\ isValidCoverageMetric(v.lines)

KeysOf(entries) == { entries[i].key : i \in DOMAIN entries }

\* summary[key]; undefined when the key is absent
Lookup(entries, key) ==
    IF key \in KeysOf(entries)
    THEN (entries[CHOOSE i \in DOMAIN entries : entries[i].key = key]).value
    ELSE FileCov("undefined", Metric("undefined", JUndef, JUndef, JUndef))

\* variant: the summary is built anew from the members that are checked
validateCoverageSummary_Rebuilt(data) ==
    IF data.top \notin {"object", "array"}
    THEN [ok |-> FALSE, err |-> "InvalidShape", key |-> "", value |-> data]
    ELSE IF ~isValidFileCoverage(Lookup(data.entries, "total"))
    THEN [ok |-> FALSE, err |-> "MissingTotal", key |-> "", value |-> data]
    ELSE LET bad == { i \in DOMAIN data.entries :
                        /\ data.entries[i].key # "total"
                        /\ ~isValidFileCoverage(data.entries[i].value) }
         IN IF bad # {}
            THEN [ok |-> FALSE, err |-> "InvalidFileEntry",
                  key |-> data.entries[CHOOSE i \in bad : \A j \in bad : i <= j].key,
                  value |-> data]
            ELSE [ok |-> TRUE, err |-> "", key |-> "",
                  value |-> Data(data.top,
                                 [i \in DOMAIN data.entries |->
                                    Entry(data.entries[i].key,
                                          FileCov("object",
                                                  Metric("object",
                                                         data.entries[i].value.lines.total,
                                                         data.entries[i].value.lines.covered,
                                                         data.entries[i].value.lines.pct)))])]

\* variant: the file entries are checked before total
validateCoverageSummary_FilesFirst(data) ==
    IF data.top \notin {"object", "array"}
    THEN [ok |-> FALSE, err |-> "InvalidShape", key |-> "", value |-> data]
    ELSE LET bad == { i \in DOMAIN data.entries :
                        /\ data.entries[i].key # "total"
                        /\ ~isValidFileCoverage(data.entries[i].value) }
         IN IF bad # {}
            THEN [ok |-> FALSE, err |-> "InvalidFileEntry",
                  key |-> data.entries[CHOOSE i \in bad : \A j \in bad : i <= j].key,
                  value |-> data]
            ELSE IF ~isValidFileCoverage(Lookup(data.entries, "total"))
            THEN [ok |-> FALSE, err |-> "MissingTotal", key |-> "", value |-> data]
            ELSE [ok |-> TRUE, err |-> "", key |-> "", value |-> data]

\* validateCoverageSummary(data): ok with the summary, or the error thrown;
\* err stands for the message: InvalidShape for "Coverage summary must be
\* an object", MissingTotal for 'Coverage summary missing valid "total"
\* field', InvalidFileEntry for "Invalid coverage data for file: <key>"
validateCoverageSummary(data) ==
    IF data.top \notin {"object", "array"}
    THEN [ok |-> FALSE, err |-> "InvalidShape", key |-> "", value |-> data]
    ELSE IF ~isValidFileCoverage(Lookup(data.entries, "total"))
    THEN [ok |-> FALSE, err |-> "MissingTotal", key |-> "", value |-> data]
    ELSE LET bad == { i \in DOMAIN data.entries :
                        /\ data.entries[i].key # "total"
                        /\ ~isValidFileCoverage(data.entries[i].value) }
         IN IF bad # {}
            THEN [ok |-> FALSE, err |-> "InvalidFileEntry",
                  key |-> data.entries[CHOOSE i \in bad : \A j \in bad : i <= j].key,
                  value |-> data]
            ELSE [ok |-> TRUE, err |-> "", key |-> "", value |-> data]

ParsedFileCoverage(path, linesPct, linesCovered, linesTotal) ==
    [path |-> path, linesPct |-> linesPct,
     linesCovered |-> linesCovered, linesTotal |-> linesTotal]

\* variant: strictly below the threshold
Below_Strict(linesPct, t) == linesPct < t

\* the test of filterBelowThreshold
Below(linesPct, t) == linesPct <= t

RECURSIVE FilterFrom(_, _, _, _)
FilterFrom(entries, t, i, result) ==
    IF i > Len(entries) THEN result
    ELSE LET path == entries[i].key
             coverage == entries[i].value
         IN IF path = "total" THEN FilterFrom(entries, t, i + 1, result)
            ELSE IF Below(coverage.lines.pct.n, t)
            THEN FilterFrom(entries, t, i + 1,
                     Append(result, ParsedFileCoverage(path, coverage.lines.pct.n,
                                        coverage.lines.covered.n, coverage.lines.total.n)))
            ELSE FilterFrom(entries, t, i + 1, result)

\* variant: the loop starts at the second entry
filterBelowThreshold_SkipFirst(s, t) == FilterFrom(s.entries, t, 2, <<>>)

\* filterBelowThreshold(summary, threshold)
filterBelowThreshold(s, t) == FilterFrom(s.entries, t, 1, <<>>)

\* variant: descending comparator
Compare_Descending(a, b) == b.linesPct - a.linesPct

\* the comparator of sortByPercentage
Compare(a, b) == a.linesPct - b.linesPct

\* Array.prototype.sort is stable: an element goes after every element
\* that does not compare greater than it
RECURSIVE InsertSorted(_, _)
InsertSorted(sorted, x) ==
    IF sorted = <<>> THEN <<x>>
    ELSE LET n == Len(sorted)
         IN IF Compare(sorted[n], x) <= 0 THEN Append(sorted, x)
            ELSE Append(InsertSorted(SubSeq(sorted, 1, n - 1), x), sorted[n])

RECURSIVE SortFrom(_, _, _)
SortFrom(copy, i, sorted) ==
    IF i > Len(copy) THEN sorted ELSE SortFrom(copy, i + 1, InsertSorted(sorted, copy[i]))

\* variant: the copy is returned as it is
sortByPercentage_Unsorted(fs) == [input |-> fs, output |-> fs]

\* sortByPercentage(files): [...files].sort(compare) sorts a copy; input is
\* the caller's array as the call leaves it, output the array returned
sortByPercentage(fs) ==
    LET copy == fs
    IN [input |-> fs, output |-> SortFrom(copy, 1, <<>>)]

----------------------------------------------------------------------------
(* inputs of the configuration resolver *)

NonObjectPkg ==
    { File("absent", "object", "undefined", EmptyObj),
      File("unreadable", "object", "undefined", EmptyObj),
      File("badjson", "object", "undefined", EmptyObj),
      File("json", "null", "undefined", EmptyObj),
      File("json", "array", "undefined", EmptyObj),
      File("json", "string", "undefined", EmptyObj),
      File("json", "object", "undefined", EmptyObj),
      File("json", "object", "null", EmptyObj),
      File("json", "object", "string", EmptyObj),
      File("json", "object", "array", EmptyObj) }

PkgFields ==
    { Obj(th, ex, fl, cp) :
        th \in {JUndef, JNum(2500), JNum(15000), JNum(1050)},
        ex \in {JUndef, JArr(<<JStr("*.test.ts")>>), JArr(<<JStr("a"), JNum(100)>>)},
        fl \in {JUndef, JBool(TRUE)},
        cp \in {JUndef, JStr("pkg/summary.json")} }

PkgFiles == NonObjectPkg \cup { File("json", "object", "object", o) : o \in PkgFields }

NonObjectCfg ==
    { File("absent", "object", "undefined", EmptyObj),
      File("unreadable", "object", "undefined", EmptyObj),
      File("badjson", "object", "undefined", EmptyObj),
      File("json", "null", "undefined", EmptyObj),
      File("json", "array", "undefined", EmptyObj),
      File("json", "string", "undefined", EmptyObj) }

CfgFields ==
    { Obj(th, ex, fl, cp) :
        th \in {JUndef, JNum(3000), JNum(-1000), JStr("invalid")},
        ex \in {JUndef, JArr(<<>>)},
        fl \in {JUndef, JBool(FALSE), JStr("yes")},
        cp \in {JUndef, JStr("cfg/summary.json"), JNum(700)} }

CfgFiles == NonObjectCfg \cup { File("json", "object", "undefined", o) : o \in CfgFields }

OverrideFields ==
    { Obj(th, ex, fl, cp) :
        th \in {JUndef, JNum(5000), JNum(15000)},
        ex \in {JUndef, JArr(<<JStr("cli/**")>>)},
        fl \in {JUndef, JBool(TRUE), JBool(FALSE)},
        cp \in {JUndef, JStr("cli/summary.json")} }

Overrides == {None} \cup { Some(o) : o \in OverrideFields }

----------------------------------------------------------------------------
(* src/utils/fs.ts, src/utils/format.ts, src/commands/report.ts, src/cli.ts *)

DEFAULT_COVERAGE_PATH == "coverage/coverage-summary.json"

\* resolvePath(relativePath): resolve(process.cwd(), relativePath), the
\* working directory being /project; an absolute path is returned as it is
resolvePath(path) ==
    CASE path = "coverage/coverage-summary.json" -> "/project/coverage/coverage-summary.json"
      [] path = "pkg/summary.json" -> "/project/pkg/summary.json"
      [] path = "cfg/summary.json" -> "/project/cfg/summary.json"
      [] OTHER -> path

\* a coverage file on disk: state as for File, data the parsed JSON
CovFile(state, data) == [state |-> state, data |-> data]

\* variant: the parsed JSON is returned without validation
parseCoverageSummary_Unvalidated(f) ==
    LET r == readJson(f)
    IN IF ~r.ok THEN [ok |-> FALSE, err |-> r.err, key |-> "", value |-> f.data]
       ELSE [ok |-> TRUE, err |-> "", key |-> "", value |-> r.value.data]

\* parseCoverageSummary(coveragePath): readJson, then validateCoverageSummary
parseCoverageSummary(f) ==
    LET r == readJson(f)
    IN IF ~r.ok THEN [ok |-> FALSE, err |-> r.err, key |-> "", value |-> f.data]
       ELSE validateCoverageSummary(r.value.data)

\* what is written to a stream: kind is "report" or "error", json tells
\* whether it is a JSON document, text is the string that is printed (of a
\* report: a sequence of characters, or the JSON document), the other
\* fields are its content
ReportDoc(json, t, fs) ==
    [kind |-> "report", json |-> json, error |-> "", path |-> "", details |-> "",
     threshold |-> t, count |-> Len(fs), files |-> fs, text |-> <<>>]

\* a line of free text: kind tells which, details carries a message
TextDoc(kind) ==
    [kind |-> kind, json |-> FALSE, error |-> "", path |-> "", details |-> "",
     threshold |-> JUndef, count |-> 0, files |-> <<>>, text |-> <<>>]

\* the two streams of the process
Streams(out, err) == [out |-> out, err |-> err]

\* variant: the verbose line is printed with console.log
logVerbose_ConsoleLog(on, streams, msg) ==
    IF on THEN [streams EXCEPT !.out = Append(@, [TextDoc("verbose") EXCEPT !.details = msg])]
    ELSE streams

\* createLogger(verbose).verbose(msg): console.error of the message when
\* verbose is on, nothing otherwise
logVerbose(on, streams, msg) ==
    IF on THEN [streams EXCEPT !.err = Append(@, [TextDoc("verbose") EXCEPT !.details = msg])]
    ELSE streams

\* strings are sequences of characters; a run of characters with no line
\* break in it may be written as one element
LF == "\n"
SP == " "

\* the lines of a text: what stands before, between and after its line
\* breaks
RECURSIVE SplitFrom(_, _, _)
SplitFrom(text, i, line) ==
    IF i > Len(text) THEN <<line>>
    ELSE IF text[i] = LF THEN <<line>> \o SplitFrom(text, i + 1, <<>>)
    ELSE SplitFrom(text, i + 1, Append(line, text[i]))
SplitLines(text) == SplitFrom(text, 1, <<>>)

\* the numbers that are not finite
JNaN == [JNum(0) EXCEPT !.s = "NaN"]
JInfinity == [JNum(0) EXCEPT !.s = "Infinity"]
Finite(v) == v.t = "number" /\ v.s = ""

\* the decimal digits of a natural number
RECURSIVE Digits(_)
Digits(k) == IF k < 10 THEN <<ToString(k)>> ELSE Digits(k \div 10) \o <<ToString(k % 10)>>

\* Number.prototype.toString of a number of hundredths: no trailing zero
\* and no decimal point after an integer
NumberToString(n) ==
    Digits(n \div 100)
    \o (IF n % 100 = 0 THEN <<>>
        ELSE IF n % 10 = 0 THEN <<".", ToString((n % 100) \div 10)>>
        ELSE <<".", ToString((n % 100) \div 10), ToString(n % 10)>>)

\* `${threshold}`: the threshold is any number
TemplateNumber(v) == IF Finite(v) THEN NumberToString(v.n) ELSE <<v.s>>

\* toFixed(2): always two decimals
toFixed2(n) == Digits(n \div 100) \o <<".", ToString((n % 100) \div 10), ToString(n % 10)>>

RECURSIVE Spaces(_)
Spaces(k) == IF k <= 0 THEN <<>> ELSE <<SP>> \o Spaces(k - 1)

padStart(text, width) == Spaces(width - Len(text)) \o text

formatPercent(pct) == padStart(toFixed2(pct), 6) \o <<"%">>

formatLines(covered, total) ==
    <<"LH ">> \o padStart(NumberToString(covered), 4) \o <<"/LF ">>
    \o padStart(NumberToString(total), 4)

\* the characters of a path: the paths the model feeds, one of which has
\* a line break in it
PathText(path) ==
    IF path = "src/new\nline.ts" THEN <<"src/new", LF, "line.ts">> ELSE <<path>>

\* formatFileLine(file) without colors
formatFileLine(file) ==
    formatPercent(file.linesPct) \o <<SP, SP>>
    \o formatLines(file.linesCovered, file.linesTotal) \o <<SP, SP, SP>> \o PathText(file.path)

\* array.join(sep)
RECURSIVE JoinLines(_, _, _)
JoinLines(lines, sep, i) ==
    IF i > Len(lines) THEN <<>>
    ELSE (IF i > 1 THEN sep ELSE <<>>) \o lines[i] \o JoinLines(lines, sep, i + 1)

\* variant: the header is followed by the file lines at once
ReportText_NoBlankLine(fs, t) ==
    IF Len(fs) = 0
    THEN <<"No files at or below ">> \o TemplateNumber(t) \o <<"% line coverage.">>
    ELSE LET header == <<"Files at or below ">> \o TemplateNumber(t) \o <<"% line coverage: ">>
                       \o Digits(Len(fs))
             fileLines == JoinLines([i \in 1..Len(fs) |-> <<SP, SP>> \o formatFileLine(fs[i])],
                                    <<LF>>, 1)
         IN header \o <<LF>> \o fileLines

\* the string formatReport(files, threshold) returns when colors are
\* absent or disabled
ReportText(fs, t) ==
    IF Len(fs) = 0
    THEN <<"No files at or below ">> \o TemplateNumber(t) \o <<"% line coverage.">>
    ELSE LET header == <<"Files at or below ">> \o TemplateNumber(t) \o <<"% line coverage: ">>
                       \o Digits(Len(fs)) \o <<LF>>
             fileLines == JoinLines([i \in 1..Len(fs) |-> <<SP, SP>> \o formatFileLine(fs[i])],
                                    <<LF>>, 1)
         IN header \o <<LF>> \o fileLines

\* a JSON text is a sequence of tokens: the punctuation marks, and the
\* literals, each with the value it is read as
Mark(c) == [kind |-> c, lit |-> JNull]
Lit(v) == [kind |-> "literal", lit |-> v]

\* JSON.stringify of a number or a string: a number that is not finite is
\* written as null
Literal(v) == Lit(IF v.t = "number" /\ ~Finite(v) THEN JNull ELSE v)

\* JSON.stringify of an object whose members are given in order by name
\* and by the tokens of the value
RECURSIVE MembersFrom(_, _)
MembersFrom(members, i) ==
    IF i > Len(members) THEN <<>>
    ELSE (IF i > 1 THEN <<Mark(",")>> ELSE <<>>)
         \o <<Lit(JStr(members[i][1])), Mark(":")>> \o members[i][2]
         \o MembersFrom(members, i + 1)
ObjectText(members) == <<Mark("{")>> \o MembersFrom(members, 1) \o <<Mark("}")>>

\* JSON.stringify of an array whose elements are given by their tokens
ArrayText(elements) == <<Mark("[")>> \o JoinLines(elements, <<Mark(",")>>, 1) \o <<Mark("]")>>

\* variant: linesCovered and linesTotal change places
FileObject_Swapped(f) ==
    <<<<"path", <<Literal(JStr(f.path))>>>>,
      <<"linesPct", <<Literal(JNum(f.linesPct))>>>>,
      <<"linesCovered", <<Literal(JNum(f.linesTotal))>>>>,
      <<"linesTotal", <<Literal(JNum(f.linesCovered))>>>>>>

\* the object formatReportJson makes of a file
FileObject(f) ==
    <<<<"path", <<Literal(JStr(f.path))>>>>,
      <<"linesPct", <<Literal(JNum(f.linesPct))>>>>,
      <<"linesCovered", <<Literal(JNum(f.linesCovered))>>>>,
      <<"linesTotal", <<Literal(JNum(f.linesTotal))>>>>>>

\* the string formatReportJson(files, threshold) returns, white space
\* left out
ReportJson(fs, t) ==
    ObjectText(<<<<"threshold", <<Literal(t)>>>>,
                 <<"count", <<Literal(JNum(100 * Len(fs)))>>>>,
                 <<"files", ArrayText([i \in 1..Len(fs) |-> ObjectText(FileObject(fs[i]))])>>>>)

\* JSON.parse: the value that begins at token i and the place after it; an
\* object is a function of its member names (a name written twice keeps
\* its last value), an array a sequence
RECURSIVE ParseValue(_, _)
RECURSIVE ParseMembers(_, _, _)
RECURSIVE ParseElements(_, _, _)
ParseValue(toks, i) ==
    IF toks[i].kind = "{" THEN ParseMembers(toks, i + 1, <<>>)
    ELSE IF toks[i].kind = "[" THEN ParseElements(toks, i + 1, <<>>)
    ELSE [value |-> toks[i].lit, next |-> i + 1]
ParseMembers(toks, i, acc) ==
    IF toks[i].kind = "}" THEN [value |-> acc, next |-> i + 1]
    ELSE IF toks[i].kind = "," THEN ParseMembers(toks, i + 1, acc)
    ELSE LET v == ParseValue(toks, i + 2)
         IN ParseMembers(toks, v.next, (toks[i].lit.s :> v.value) @@ acc)
ParseElements(toks, i, acc) ==
    IF toks[i].kind = "]" THEN [value |-> acc, next |-> i + 1]
    ELSE IF toks[i].kind = "," THEN ParseElements(toks, i + 1, acc)
    ELSE LET v == ParseValue(toks, i)
         IN ParseElements(toks, v.next, Append(acc, v.value))
JSONparse(toks) == ParseValue(toks, 1).value

formatReportJson(fs, t) == [ReportDoc(TRUE, t, fs) EXCEPT !.text = ReportJson(fs, t)]

\* the string reportCommand prints for an error in JSON mode, white space
\* left out: JSON.stringify of {error, path} when the file is missing and
\* of {error, details} when it cannot be parsed
ErrorJson(error, path, details) ==
    ObjectText(<<<<"error", <<Literal(JStr(error))>>>>,
                 IF path # "" THEN <<"path", <<Literal(JStr(path))>>>>
                 ELSE <<"details", <<Literal(JStr(details))>>>>>>)

\* an error written to a stream: in JSON mode text is the string printed
ErrorDoc(json, error, path, details) ==
    [kind |-> "error", json |-> json, error |-> error, path |-> path, details |-> details,
     threshold |-> JUndef, count |-> 0, files |-> <<>>,
     text |-> IF json THEN ErrorJson(error, path, details) ELSE <<>>]
formatReport(fs, t) == [ReportDoc(FALSE, t, fs) EXCEPT !.text = ReportText(fs, t)]

\* ReportOptions: every field optional
Options(th, fl, js, cp, vb) ==
    [threshold |-> th, fail |-> fl, json |-> js, coveragePath |-> cp, verbose |-> vb]
NoOptions == Options(JUndef, JUndef, JUndef, JUndef, JUndef)

\* options.json used as a condition
Truthy(v) == v.t = "boolean" /\ v.b

\* the command line: command is the first positional ("" when there is
\* none); threshold and coveragePath are the text given with the flag,
\* undefined when the flag is not given; the others tell whether the flag
\* is given
Argv(command, help, version, th, fail, json, cp) ==
    [command |-> command, help |-> help, version |-> version, threshold |-> th,
     fail |-> fail, json |-> json, coveragePath |-> cp]
NoArgv == Argv("", FALSE, FALSE, JUndef, FALSE, FALSE, JUndef)

\* Number.parseInt(text, 10) of the texts the model feeds it
parseInt(text) ==
    CASE text = "10" -> [nan |-> FALSE, n |-> 1000]
      [] text = "0" -> [nan |-> FALSE, n |-> 0]
      [] text = "100" -> [nan |-> FALSE, n |-> 10000]
      [] text = "5.26" -> [nan |-> FALSE, n |-> 500]
      [] text = "150" -> [nan |-> FALSE, n |-> 15000]
      [] text = "-1" -> [nan |-> FALSE, n |-> -100]
      [] OTHER -> [nan |-> TRUE, n |-> 0]

\* the options main hands to reportCommand: parseArgs fills every flag
\* that is not given with its default
CliOptions(a) ==
    LET thresholdRaw == IF a.threshold.t = "undefined" THEN "10" ELSE a.threshold.s
    IN Options(JNum(parseInt(thresholdRaw).n),
               JBool(a.fail),
               JBool(a.json),
               IF a.coveragePath.t = "undefined" THEN JStr(DEFAULT_COVERAGE_PATH)
               ELSE a.coveragePath,
               JUndef)

\* parseCliArgs: the exit code it ends the process with, or -1
ParseCliArgsExit(a) ==
    LET thresholdRaw == IF a.threshold.t = "undefined" THEN "10" ELSE a.threshold.s
        th == parseInt(thresholdRaw)
    IN IF a.command \notin {"", "report", "init", "check"} THEN 2
       ELSE IF th.nan THEN 2
       ELSE IF th.n < 0 \/ th.n > 10000 THEN 2
       ELSE -1

\* variant: the fail flag alone decides
ExitCodeFor_FlagOnly(sorted, cfg) == IF cfg.failOnLow.b THEN 1 ELSE 0

\* the exit code of a report that was produced
ExitCodeFor(sorted, cfg) == IF Len(sorted) > 0 /\ cfg.failOnLow.b THEN 1 ELSE 0

----------------------------------------------------------------------------
(* values of the variables a specification does not use *)

AbsentFile == File("absent", "object", "undefined", EmptyObj)

FsIdle == pkgJson = AbsentFile /\ configFile = AbsentFile /\ disk = <<>>
ConfigIdle == cliOverrides = None /\ loaded = [done |-> FALSE, threw |-> FALSE, value |-> EmptyObj]
MergeIdle == configs = <<>> /\ merged = [done |-> FALSE, value |-> EmptyObj]
NotYet == [done |-> FALSE, value |-> <<>>]
Done(v) == [done |-> TRUE, value |-> v]

CoverageIdle ==
    /\ summary = Data("undefined", <<>>) /\ threshold = 0 /\ filesBelow = NotYet
    /\ files = <<>> /\ sortedFiles = NotYet
RunIdle ==
    /\ pc = "Idle" /\ entry = "none" /\ argv = NoArgv /\ options = NoOptions
    /\ config = EmptyObj /\ coveragePath = "" /\ stdout = <<>> /\ stderr = <<>>
    /\ exitCode = -1
ValidationIdle ==
    /\ validated = [done |-> FALSE, ok |-> FALSE, err |-> "", key |-> ""]
    /\ returned = NotYet
PathIdle ==
    /\ targetPath = [abs |-> FALSE, segs |-> <<>>]
    /\ baseDir = [abs |-> FALSE, segs |-> <<>>]
    /\ checked = [done |-> FALSE, threw |-> FALSE, value |-> <<>>]
FileIdle ==
    /\ fsys = [dirs |-> {}, files |-> <<>>]
    /\ before = [dirs |-> {}, files |-> <<>>]
    /\ call = [given |-> FALSE, count |-> 0, limit |-> 0, initial |-> fsys]
    /\ outcome = [done |-> FALSE, op |-> "", err |-> "", value |-> <<>>, touched |-> <<>>]
    /\ appended = <<>>
HeapIdle == arrays = <<>> /\ passed = {} /\ calls = <<>>
ProcIdle ==
    /\ other = <<>> /\ active = 0 /\ interfered = FALSE /\ project = <<>> /\ runs = <<>>
    /\ HeapIdle
UtilIdle == ValidationIdle /\ PathIdle /\ FileIdle /\ ProcIdle

----------------------------------------------------------------------------
(* SpecConfig: loadConfig applied to every project directory and override *)

InitConfig ==
    /\ pkgJson \in PkgFiles
    /\ configFile \in CfgFiles
    /\ disk = <<>>
    /\ cliOverrides \in Overrides
    /\ loaded = [done |-> FALSE, threw |-> FALSE, value |-> EmptyObj]
    /\ MergeIdle /\ CoverageIdle /\ RunIdle /\ UtilIdle

CallLoadConfig ==
    /\ ~loaded.done
    /\ pc = "Idle"
    /\ LET r == loadConfig(cliOverrides, pkgJson, configFile)
       IN loaded' = [done |-> TRUE, threw |-> r.threw, value |-> r.value]
    /\ UNCHANGED <<utilVars, fsVars, cliOverrides, mergeVars, coverageVars, runVars>>

NextConfig == CallLoadConfig

SpecConfig == InitConfig /\ [][NextConfig]_vars

----------------------------------------------------------------------------
(* SpecMerge: mergeConfigs applied to every list of up to MaxConfigs partials *)

MaxConfigs == 3

MergePartials ==
    { EmptyObj,
      Obj(JNum(2000), JUndef, JUndef, JUndef),
      Obj(JNum(3000), JUndef, JBool(TRUE), JUndef),
      Obj(JUndef, JArr(<<JStr("*.test.ts")>>), JUndef, JUndef),
      Obj(JUndef, JUndef, JBool(FALSE), JStr("custom/path.json")),
      Obj(JNum(5000), JArr(<<>>), JBool(TRUE), JStr("other/path.json")),
      Obj(JUndef, JArr(<<JStr("a"), JStr("b")>>), JUndef, JStr("coverage/coverage-summary.json")) }

SeqsUpTo(S, n) == UNION { [1..k -> S] : k \in 0..n }

InitMerge ==
    /\ configs \in SeqsUpTo(MergePartials, MaxConfigs)
    /\ merged = [done |-> FALSE, value |-> EmptyObj]
    /\ FsIdle /\ ConfigIdle /\ CoverageIdle /\ RunIdle /\ UtilIdle

CallMergeConfigs ==
    /\ ~merged.done
    /\ pc = "Idle"
    /\ merged' = [done |-> TRUE, value |-> mergeConfigs(configs)]
    /\ UNCHANGED <<utilVars, fsVars, configVars, configs, coverageVars, runVars>>

NextMerge == CallMergeConfigs

SpecMerge == InitMerge /\ [][NextMerge]_vars

----------------------------------------------------------------------------
(* SpecCoverage: filterBelowThreshold applied to every summary of up to   *)
(* MaxFiles files and sortByPercentage applied to its result              *)

MaxFiles == 3

FileKeys == {"src/a.ts", "src/b.ts", "src/c.ts", "src/d.ts"}

ValidCov(pct, covered, total) ==
    FileCov("object", Metric("object", JNum(total), JNum(covered), JNum(pct)))

\* 0%, 5.26%, 100%, and a metric no tool should report (150%, 999 of 10)
FileValues ==
    { ValidCov(0, 0, 2000), ValidCov(526, 100, 1900),
      ValidCov(10000, 5000, 5000), ValidCov(15000, 99900, 1000) }

TotalValues == { ValidCov(4000, 4000, 10000), ValidCov(0, 0, 0) }

\* key orders: distinct keys, "total" among them
KeySeqs(n) ==
    { ks \in [1..n -> FileKeys \cup {"total"}] :
        /\ \A i, j \in 1..n : i # j => ks[i] # ks[j]
        /\ \E i \in 1..n : ks[i] = "total" }

KeyOrders == UNION { KeySeqs(n) : n \in 1..(MaxFiles + 1) }

\* the object with keys ks in that order, tv under "total" and the values
\* fv, in order, under the other keys
MakeSummary(ks, tv, fv) ==
    LET t == CHOOSE i \in DOMAIN ks : ks[i] = "total"
    IN Data("object",
            [i \in DOMAIN ks |->
                Entry(ks[i], IF i = t THEN tv ELSE fv[IF i < t THEN i ELSE i - 1])])

\* data validateCoverageSummary rejects
InvalidData ==
    { Data("null", <<>>),
      Data("string", <<>>),
      Data("object", <<>>),
      Data("object", <<Entry("src/a.ts", ValidCov(0, 0, 2000))>>),
      Data("object", <<Entry("total", FileCov("object", Metric("undefined", JUndef, JUndef, JUndef)))>>),
      Data("object", <<Entry("total", ValidCov(4000, 4000, 10000)),
                       Entry("src/a.ts", FileCov("null", Metric("undefined", JUndef, JUndef, JUndef)))>>),
      Data("object", <<Entry("src/a.ts", FileCov("object", Metric("object", JNum(2000), JNum(0), JStr("0")))),
                       Entry("total", ValidCov(4000, 4000, 10000))>>) }

Thresholds == {0, 526, 10000}

InitCoverage ==
    /\ \/ \E ks \in KeyOrders : \E tv \in TotalValues :
            \E fv \in [1..(Len(ks) - 1) -> FileValues] : summary = MakeSummary(ks, tv, fv)
       \/ summary \in InvalidData
    /\ threshold \in Thresholds
    /\ filesBelow = NotYet
    /\ files = <<>>
    /\ sortedFiles = NotYet
    /\ FsIdle /\ ConfigIdle /\ MergeIdle /\ RunIdle /\ UtilIdle

\* filterBelowThreshold takes a CoverageSummary: data the validator accepted
CallFilterBelowThreshold ==
    /\ pc = "Idle"
    /\ ~filesBelow.done
    /\ validateCoverageSummary(summary).ok
    /\ filesBelow' = Done(filterBelowThreshold(summary, threshold))
    /\ UNCHANGED <<utilVars, fsVars, configVars, mergeVars, summary, threshold, files, sortedFiles, runVars>>

\* files is the argument as passed; filesBelow is the same array after the call
CallSortByPercentage ==
    /\ pc = "Idle"
    /\ filesBelow.done
    /\ ~sortedFiles.done
    /\ LET r == sortByPercentage(filesBelow.value)
       IN /\ files' = filesBelow.value
          /\ filesBelow' = Done(r.input)
          /\ sortedFiles' = Done(r.output)
    /\ UNCHANGED <<utilVars, fsVars, configVars, mergeVars, summary, threshold, runVars>>

NextCoverage == CallFilterBelowThreshold \/ CallSortByPercentage

SpecCoverage == InitCoverage /\ [][NextCoverage]_vars

----------------------------------------------------------------------------
(* SpecValidate: validateCoverageSummary applied to every value that is   *)
(* not an object and to every object of up to MaxEntries entries          *)

MaxEntries == 3

ValidateKeys == {"total", "src/a.ts", "src/b.ts", "src/c.ts"}

NoMetric == Metric("undefined", JUndef, JUndef, JUndef)

\* an entry as the coverage tool writes it: lines with skipped, and the
\* statements, functions and branches metrics, none of which is checked
FullCov ==
    [t |-> "object",
     lines |-> [t |-> "object", total |-> JNum(2000), covered |-> JNum(1000),
                skipped |-> JNum(0), pct |-> JNum(5000)],
     statements |-> [t |-> "object", total |-> JNum(2000), covered |-> JNum(1000),
                     skipped |-> JNum(0), pct |-> JNum(5000)],
     functions |-> [t |-> "object", total |-> JNum(1000), covered |-> JNum(500),
                    skipped |-> JNum(0), pct |-> JNum(5000)],
     branches |-> [t |-> "string", total |-> JUndef, covered |-> JUndef,
                   skipped |-> JUndef, pct |-> JUndef]]

\* a valid entry; one with every member; null; a string; an object
\* without lines; lines without total; lines whose pct is a string
EntryValues ==
    { ValidCov(0, 0, 0),
      FullCov,
      FileCov("null", NoMetric),
      FileCov("string", NoMetric),
      FileCov("object", NoMetric),
      FileCov("object", Metric("object", JUndef, JNum(0), JNum(0))),
      FileCov("object", Metric("object", JNum(2000), JNum(0), JStr("0"))) }

EntryKeySeqs(n) ==
    { ks \in [1..n -> ValidateKeys] : \A i, j \in 1..n : i # j => ks[i] # ks[j] }

NonObjectData ==
    { Data(t, <<>>) : t \in {"undefined", "null", "string", "number", "boolean", "array"} }

InitValidate ==
    /\ \/ \E n \in 0..MaxEntries : \E ks \in EntryKeySeqs(n) : \E vs \in [1..n -> EntryValues] :
            summary = Data("object", [i \in 1..n |-> Entry(ks[i], vs[i])])
       \/ summary \in NonObjectData
    /\ threshold = 0 /\ filesBelow = NotYet /\ files = <<>> /\ sortedFiles = NotYet
    /\ ValidationIdle /\ PathIdle /\ FileIdle /\ ProcIdle
    /\ FsIdle /\ ConfigIdle /\ MergeIdle /\ RunIdle

CallValidateCoverageSummary ==
    /\ pc = "Idle"
    /\ ~validated.done
    /\ LET r == validateCoverageSummary(summary)
       IN /\ validated' = [done |-> TRUE, ok |-> r.ok, err |-> r.err, key |-> r.key]
          /\ returned' = IF r.ok THEN Done(r.value) ELSE NotYet
    /\ UNCHANGED <<pathVars, fileVars, procVars, initVars, heapVars, fsVars, configVars, mergeVars,
                   coverageVars, runVars>>

NextValidate == CallValidateCoverageSummary

SpecValidate == InitValidate /\ [][NextValidate]_vars

----------------------------------------------------------------------------
(* src/utils/fs.ts: paths.  A path is a record: abs tells whether it      *)
(* starts with "/", segs are its segments, each a sequence of characters  *)

Path(abs, segs) == [abs |-> abs, segs |-> segs]

Dot == <<".">>
DotDot == <<".", ".">>

\* process.cwd()
Cwd == <<<<"w">>>>

\* normalisation of the segments of an absolute path: "." is dropped and
\* ".." removes the segment before it, if there is one
RECURSIVE NormalizeFrom(_, _, _)
NormalizeFrom(segs, i, acc) ==
    IF i > Len(segs) THEN acc
    ELSE IF segs[i] = Dot THEN NormalizeFrom(segs, i + 1, acc)
    ELSE IF segs[i] = DotDot
    THEN NormalizeFrom(segs, i + 1, IF acc = <<>> THEN acc ELSE SubSeq(acc, 1, Len(acc) - 1))
    ELSE NormalizeFrom(segs, i + 1, Append(acc, segs[i]))

\* path.resolve(a, b): the segments of the absolute result
resolve(a, b) ==
    IF b.abs THEN NormalizeFrom(b.segs, 1, <<>>)
    ELSE IF a.abs THEN NormalizeFrom(a.segs \o b.segs, 1, <<>>)
    ELSE NormalizeFrom(Cwd \o a.segs \o b.segs, 1, <<>>)

\* the number of leading segments two absolute paths share
RECURSIVE CommonFrom(_, _, _)
CommonFrom(from, to, i) ==
    IF i > Len(from) \/ i > Len(to) \/ from[i] # to[i] THEN i - 1
    ELSE CommonFrom(from, to, i + 1)

\* path.relative(from, to), to being absolute already: the segments of
\* the result, one ".." for each segment of from that to does not share
relative(from, to) ==
    LET f == resolve(Path(TRUE, Cwd), from)
        c == CommonFrom(f, to, 1)
    IN [i \in 1..(Len(f) - c) |-> DotDot] \o SubSeq(to, c + 1, Len(to))

\* a relative path as text: its segments joined by "/"
RECURSIVE JoinFrom(_, _)
JoinFrom(segs, i) ==
    IF i > Len(segs) THEN <<>>
    ELSE IF i = Len(segs) THEN segs[i]
    ELSE segs[i] \o <<"/">> \o JoinFrom(segs, i + 1)

startsWith(text, prefix) ==
    Len(text) >= Len(prefix) /\ SubSeq(text, 1, Len(prefix)) = prefix

isAbsolute(text) == startsWith(text, <<"/">>)

\* validatePath(targetPath, baseDir): the resolved path, or the
\* "is outside allowed directory" error
validatePath(target, base) ==
    LET resolved == resolve(base, target)
        relativePath == JoinFrom(relative(base, resolved), 1)
    IN IF startsWith(relativePath, <<".", ".">>) \/ isAbsolute(relativePath)
       THEN [threw |-> TRUE, value |-> <<>>]
       ELSE [threw |-> FALSE, value |-> resolved]

----------------------------------------------------------------------------
(* src/utils/fs.ts: files.  A file system is a record: dirs is the set of *)
(* directories, files maps each file to its text; both are named by the   *)
(* segments of their absolute path.  A text is a sequence of characters.  *)
(* An operation yields the file system it leaves, the error it throws     *)
(* ("" when it returns), the value it returns and the node:fs calls it    *)
(* made.                                                                  *)


R(fs, err, value, touched) == [fs |-> fs, err |-> err, value |-> value, touched |-> touched]

Parent(loc) == IF loc = <<>> THEN <<>> ELSE SubSeq(loc, 1, Len(loc) - 1)
Prefixes(loc) == { SubSeq(loc, 1, k) : k \in 0..Len(loc) }

existsSync(fs, loc) == loc \in fs.dirs \/ loc \in DOMAIN fs.files

WithFile(fs, loc, text) ==
    [fs EXCEPT !.files = [q \in DOMAIN fs.files \cup {loc} |-> IF q = loc THEN text ELSE fs.files[q]]]

\* readFileSync: fails on a missing path and on a directory
readFileSync(fs, loc) ==
    IF loc \in DOMAIN fs.files THEN R(fs, "", fs.files[loc], <<"readFileSync">>)
    ELSE R(fs, "ENOENT", <<>>, <<"readFileSync">>)

\* writeFileSync: fails on a directory and under a parent that is not a
\* directory
writeFileSync(fs, loc, text) ==
    IF loc \in fs.dirs \/ Parent(loc) \notin fs.dirs THEN R(fs, "EIO", <<>>, <<"writeFileSync">>)
    ELSE R(WithFile(fs, loc, text), "", <<>>, <<"writeFileSync">>)

\* appendFileSync: as writeFileSync, the text going after what is there
appendFileSync(fs, loc, text) ==
    IF loc \in fs.dirs \/ Parent(loc) \notin fs.dirs THEN R(fs, "EIO", <<>>, <<"appendFileSync">>)
    ELSE R(WithFile(fs, loc, (IF loc \in DOMAIN fs.files THEN fs.files[loc] ELSE <<>>) \o text),
           "", <<>>, <<"appendFileSync">>)

\* mkdirSync(path, {recursive: true}): fails when a file is in the way
mkdirSync(fs, loc) ==
    IF \E q \in Prefixes(loc) : q \in DOMAIN fs.files THEN R(fs, "ENOTDIR", <<>>, <<"mkdirSync">>)
    ELSE R([fs EXCEPT !.dirs = @ \cup Prefixes(loc)], "", <<>>, <<"mkdirSync">>)

\* ensureDir(path): nothing for "", "." and "/", else mkdirSync unless
\* the path exists; trivial tells that the path is one of the three
ensureDir(fs, loc, trivial) ==
    IF trivial THEN R(fs, "", <<>>, <<>>)
    ELSE IF existsSync(fs, loc) THEN R(fs, "", <<>>, <<"existsSync">>)
    ELSE LET m == mkdirSync(fs, loc)
         IN R(m.fs, IF m.err = "" THEN "" ELSE "MkdirFailure", <<>>, <<"existsSync">> \o m.touched)

\* options?.baseDir used as a condition: an empty string counts as absent
Given(base, given) == given /\ base # Path(FALSE, <<>>)

\* variant: the path is resolved without validation
resolvedPath_Unchecked(path, base, given) ==
    [threw |-> FALSE,
     value |-> IF Given(base, given) THEN resolve(base, path) ELSE resolve(Path(TRUE, Cwd), path)]

\* options?.baseDir ? validatePath(path, options.baseDir) : path; the
\* path as given is the file the working directory makes of it
resolvedPath(path, base, given) ==
    IF Given(base, given) THEN validatePath(path, base)
    ELSE [threw |-> FALSE, value |-> resolve(Path(TRUE, Cwd), path)]

\* dirname(resolvedPath) is "/" for a validated path under the root, and
\* ".", "/" or "" for an unvalidated path of at most one segment
TrivialDir(path, base, given, loc) ==
    IF Given(base, given) THEN Len(loc) <= 1 ELSE Len(path.segs) <= 1

\* JSON.parse(content) of the texts the model holds: "{}" with or without
\* a final newline parses
IsJson(text) == text \in { <<"{", "}">>, <<"{", "}", LF>> }

\* JSON.stringify(data, null, 2) + "\n" of the empty object
JsonText == <<"{", "}", LF>>

readJsonFile(fs, path, base, given) ==
    LET v == resolvedPath(path, base, given)
        r == readFileSync(fs, v.value)
    IN IF v.threw THEN R(fs, "PathEscape", <<>>, <<>>)
       ELSE IF r.err # "" THEN R(fs, "ReadFailure", <<>>, r.touched)
       ELSE IF ~IsJson(r.value) THEN R(fs, "ParseFailure", <<>>, r.touched)
       ELSE R(fs, "", r.value, r.touched)

readText(fs, path, base, given) ==
    LET v == resolvedPath(path, base, given)
        r == readFileSync(fs, v.value)
    IN IF v.threw THEN R(fs, "PathEscape", <<>>, <<>>)
       ELSE IF r.err # "" THEN R(fs, "ReadFailure", <<>>, r.touched)
       ELSE R(fs, "", r.value, r.touched)

writeText(fs, path, content, base, given) ==
    LET v == resolvedPath(path, base, given)
        e == ensureDir(fs, Parent(v.value), TrivialDir(path, base, given, v.value))
        w == writeFileSync(e.fs, v.value, content)
    IN IF v.threw THEN R(fs, "PathEscape", <<>>, <<>>)
       ELSE IF e.err # "" THEN R(e.fs, e.err, <<>>, e.touched)
       ELSE IF w.err # "" THEN R(w.fs, "WriteFailure", <<>>, e.touched \o w.touched)
       ELSE R(w.fs, "", <<>>, e.touched \o w.touched)

writeJson(fs, path, base, given) == writeText(fs, path, JsonText, base, given)

endsWith(text, suffix) ==
    Len(text) >= Len(suffix) /\ SubSeq(text, Len(text) - Len(suffix) + 1, Len(text)) = suffix

\* variant: the length of the content is not looked at
needsNewlineBefore_NoLengthTest(content) == ~endsWith(content, <<LF>>)

needsNewlineBefore(content) == Len(content) > 0 /\ ~endsWith(content, <<LF>>)

\* variant: the line is appended as it is
lineToAppend_NoSeparator(content, line) == line \o <<LF>>

lineToAppend(content, line) ==
    IF needsNewlineBefore(content) THEN <<LF>> \o line \o <<LF>> ELSE line \o <<LF>>

\* appendLine(path, line, options)
appendLine(fs, path, line, base, given) ==
    LET v == resolvedPath(path, base, given)
        e == ensureDir(fs, Parent(v.value), TrivialDir(path, base, given, v.value))
        content == readFileSync(e.fs, v.value)
        a == appendFileSync(e.fs, v.value, lineToAppend(content.value, line))
        w == writeFileSync(e.fs, v.value, line \o <<LF>>)
    IN IF v.threw THEN R(fs, "PathEscape", <<>>, <<>>)
       ELSE IF e.err # "" THEN R(e.fs, e.err, <<>>, e.touched)
       ELSE IF existsSync(e.fs, v.value)
       THEN IF content.err # ""
            THEN R(e.fs, "AppendFailure", <<>>, e.touched \o <<"existsSync">> \o content.touched)
            ELSE R(a.fs, IF a.err = "" THEN "" ELSE "AppendFailure", <<>>,
                   e.touched \o <<"existsSync">> \o content.touched \o a.touched)
       ELSE R(w.fs, IF w.err = "" THEN "" ELSE "AppendFailure", <<>>,
              e.touched \o <<"existsSync">> \o w.touched)

----------------------------------------------------------------------------
(* SpecPath: validatePath applied to every target of up to MaxDepth       *)
(* segments, relative or absolute, and to several base directories        *)

MaxDepth == 3

\* two names, ".", "..", and a name that begins with two dots
Segments == { <<"a">>, <<"b">>, Dot, DotDot, <<".", ".", "a">> }

\* /w (the working directory), /w/a, and the relative a
BaseDirs == { Path(TRUE, Cwd), Path(TRUE, Cwd \o <<<<"a">>>>), Path(FALSE, <<<<"a">>>>) }

InitPath ==
    /\ \E n \in 0..MaxDepth : \E segs \in [1..n -> Segments \cup {<<"w">>}] : \E abs \in BOOLEAN :
          targetPath = Path(abs, segs)
    /\ baseDir \in BaseDirs
    /\ checked = [done |-> FALSE, threw |-> FALSE, value |-> <<>>]
    /\ ValidationIdle /\ FileIdle /\ ProcIdle
    /\ FsIdle /\ ConfigIdle /\ MergeIdle /\ CoverageIdle /\ RunIdle

CallValidatePath ==
    /\ pc = "Idle"
    /\ ~checked.done
    /\ LET r == validatePath(targetPath, baseDir)
       IN checked' = [done |-> TRUE, threw |-> r.threw, value |-> r.value]
    /\ UNCHANGED <<validated, returned, targetPath, baseDir, fileVars, procVars, initVars, heapVars, fsVars, configVars, mergeVars,
                   coverageVars, runVars>>

NextPath == CallValidatePath

SpecPath == InitPath /\ [][NextPath]_vars

----------------------------------------------------------------------------
(* SpecFs: one call of readJson, writeJson, readText, writeText or        *)
(* appendLine, with and without baseDir, on a small file system.          *)
(* SpecAppend: up to MaxAppends calls of appendLine on one path.          *)

\* directories /, /w (the working directory) and /w/a; files /w/a/b,
\* /w/b (JSON) and /b
InitialFs ==
    [dirs |-> { <<>>, Cwd, Cwd \o <<<<"a">>>> },
     files |-> (Cwd \o <<<<"a">>, <<"b">>>>) :> <<"x">>
               @@ (Cwd \o <<<<"b">>>>) :> <<"{", "}">>
               @@ <<<<"b">>>> :> <<"x", LF>>]

Lines == { <<>>, <<"x">>, <<"y", "x">> }

\* ".." comes before every other segment: the file a path names does not
\* depend on which of its directories exist
DotDotsLead(segs) ==
    \A i, j \in DOMAIN segs : (i < j /\ segs[j] = DotDot) => segs[i] = DotDot

NoOutcome == [done |-> FALSE, op |-> "", err |-> "", value |-> <<>>, touched |-> <<>>]

InitFs ==
    /\ fsys = InitialFs
    /\ before = InitialFs
    /\ \E n \in 0..MaxDepth : \E segs \in [1..n -> Segments \cup {<<"w">>}] : \E abs \in BOOLEAN :
          targetPath = Path(abs, segs)
    /\ \/ /\ baseDir \in BaseDirs
          /\ call = [given |-> TRUE, count |-> 0, limit |-> 1, initial |-> fsys]
       \/ /\ baseDir = Path(FALSE, <<>>)
          /\ DotDotsLead(targetPath.segs)
          /\ call = [given |-> FALSE, count |-> 0, limit |-> 1, initial |-> fsys]
    /\ outcome = NoOutcome
    /\ appended = <<>>
    /\ checked = [done |-> FALSE, threw |-> FALSE, value |-> <<>>]
    /\ ValidationIdle /\ ProcIdle
    /\ FsIdle /\ ConfigIdle /\ MergeIdle /\ CoverageIdle /\ RunIdle

\* what a call leaves in the variables
Return(op, r) ==
    /\ pc = "Idle"
    /\ call.count < call.limit
    /\ before' = fsys
    /\ fsys' = r.fs
    /\ outcome' = [done |-> TRUE, op |-> op, err |-> r.err, value |-> r.value, touched |-> r.touched]
    /\ call' = [call EXCEPT !.count = @ + 1]
    /\ UNCHANGED <<validated, returned, pathVars, procVars, initVars, heapVars, fsVars, configVars, mergeVars, coverageVars, runVars>>

CallReadJson ==
    /\ Return("readJson", readJsonFile(fsys, targetPath, baseDir, call.given))
    /\ UNCHANGED appended

CallWriteJson ==
    /\ Return("writeJson", writeJson(fsys, targetPath, baseDir, call.given))
    /\ UNCHANGED appended

CallReadText ==
    /\ Return("readText", readText(fsys, targetPath, baseDir, call.given))
    /\ UNCHANGED appended

CallWriteText ==
    /\ Return("writeText", writeText(fsys, targetPath, <<"y">>, baseDir, call.given))
    /\ UNCHANGED appended

\* appended keeps the lines of the calls that returned
CallAppendLine ==
    \E line \in Lines :
        LET r == appendLine(fsys, targetPath, line, baseDir, call.given)
        IN /\ Return("appendLine", r)
           /\ appended' = IF r.err = "" THEN Append(appended, line) ELSE appended

NextFs ==
    \/ CallReadJson
    \/ CallWriteJson
    \/ CallReadText
    \/ CallWriteText
    \/ CallAppendLine

SpecFs == InitFs /\ [][NextFs]_vars

MaxAppends == 3
MaxText == 2

\* the path every call of SpecAppend is given, and the file it names
AppendTarget == Path(FALSE, <<<<"f">>>>)
AppendFile == Cwd \o <<<<"f">>>>

\* the file is absent, or holds any text of up to MaxText characters
InitAppend ==
    /\ \/ fsys = [dirs |-> {<<>>, Cwd}, files |-> <<>>]
       \/ \E n \in 0..MaxText : \E text \in [1..n -> {"x", LF}] :
             fsys = [dirs |-> {<<>>, Cwd}, files |-> AppendFile :> text]
    /\ before = fsys
    /\ targetPath = AppendTarget
    /\ baseDir = Path(FALSE, <<>>)
    /\ call = [given |-> FALSE, count |-> 0, limit |-> MaxAppends, initial |-> fsys]
    /\ outcome = NoOutcome
    /\ appended = <<>>
    /\ checked = [done |-> FALSE, threw |-> FALSE, value |-> <<>>]
    /\ ValidationIdle /\ ProcIdle
    /\ FsIdle /\ ConfigIdle /\ MergeIdle /\ CoverageIdle /\ RunIdle

NextAppend == CallAppendLine

SpecAppend == InitAppend /\ [][NextAppend]_vars

----------------------------------------------------------------------------
(* Spec: one run of uncov, from the command line (main) or by a direct    *)
(* call of reportCommand, in a project directory                          *)

CoveragePaths ==
    { "/project/coverage/coverage-summary.json", "/project/pkg/summary.json",
      "/project/cfg/summary.json", "/fixtures/summary.json" }

\* total 40%; files at 10000 (100%), 0%, 5.26%, listed out of order
LowSummary ==
    Data("object", <<Entry("src/c.ts", ValidCov(526, 100, 1900)),
                     Entry("total", ValidCov(4000, 4000, 10000)),
                     Entry("src/d.ts", ValidCov(10000, 5000, 5000)),
                     Entry("src/a.ts", ValidCov(0, 0, 2000))>>)

CoveredSummary ==
    Data("object", <<Entry("total", ValidCov(10000, 5000, 5000)),
                     Entry("src/d.ts", ValidCov(10000, 5000, 5000))>>)

EmptySummary == Data("object", <<Entry("total", ValidCov(0, 0, 0))>>)

\* a valid total, then a file whose lines metric has no pct
BrokenEntrySummary ==
    Data("object", <<Entry("total", ValidCov(4000, 4000, 10000)),
                     Entry("src/a.ts", ValidCov(0, 0, 2000)),
                     Entry("src/b.ts", FileCov("object", Metric("object", JNum(1000), JNum(0), JUndef)))>>)

AbsentCov == CovFile("absent", Data("undefined", <<>>))

DefaultPathContents ==
    { AbsentCov,
      CovFile("unreadable", Data("undefined", <<>>)),
      CovFile("badjson", Data("undefined", <<>>)),
      CovFile("json", Data("null", <<>>)),
      CovFile("json", Data("object", <<Entry("src/a.ts", ValidCov(0, 0, 2000))>>)),
      CovFile("json", BrokenEntrySummary),
      CovFile("json", LowSummary),
      CovFile("json", CoveredSummary),
      CovFile("json", EmptySummary) }

OtherPathContents == { AbsentCov, CovFile("json", LowSummary) }

Disks ==
    { d \in [CoveragePaths -> DefaultPathContents] :
        \A p \in CoveragePaths :
            p # "/project/coverage/coverage-summary.json" => d[p] \in OtherPathContents }

RunPkgFiles ==
    { AbsentFile,
      File("json", "object", "object",
           Obj(JNum(10000), JUndef, JBool(TRUE), JStr("pkg/summary.json"))) }

RunCfgFiles ==
    { AbsentFile,
      File("badjson", "object", "undefined", EmptyObj),
      File("json", "object", "undefined", Obj(JNum(0), JUndef, JUndef, JUndef)),
      File("json", "object", "undefined",
           Obj(JUndef, JUndef, JBool(TRUE), JStr("cfg/summary.json"))),
      File("json", "object", "undefined", Obj(JNum(15000), JUndef, JBool(FALSE), JUndef)) }

\* report runs with every combination of flags; the other commands, help
\* and version with no other flag
Argvs ==
    { Argv("", FALSE, FALSE, th, fl, js, cp) :
        th \in {JUndef, JStr("100"), JStr("5.26"), JStr("150"), JStr("abc")},
        fl \in BOOLEAN, js \in BOOLEAN,
        cp \in {JUndef, JStr("/fixtures/summary.json")} }
    \cup { Argv(c, FALSE, FALSE, JUndef, FALSE, FALSE, JUndef) : c \in {"report", "init", "check", "bogus"} }
    \cup { Argv("", TRUE, FALSE, JUndef, FALSE, FALSE, JUndef),
           Argv("", FALSE, TRUE, JUndef, FALSE, FALSE, JUndef) }

\* direct calls of reportCommand
OptionsGiven ==
    { Options(th, fl, js, cp, vb) :
        th \in {JUndef, JNum(0), JNum(10000)},
        fl \in {JUndef, JBool(TRUE), JBool(FALSE)},
        js \in {JUndef, JBool(TRUE)},
        cp \in {JUndef, JStr("/fixtures/summary.json")},
        vb \in {JUndef, JBool(TRUE)} }

Init ==
    /\ pkgJson \in RunPkgFiles
    /\ configFile \in RunCfgFiles
    /\ disk \in Disks
    /\ \/ entry = "cli" /\ argv \in Argvs /\ options = NoOptions /\ pc = "Main"
       \/ entry = "api" /\ argv = NoArgv /\ options \in OptionsGiven /\ pc = "LoadingConfig"
    /\ config = EmptyObj /\ coveragePath = "" /\ stdout = <<>> /\ stderr = <<>>
    /\ exitCode = -1
    /\ summary = Data("undefined", <<>>) /\ threshold = 0
    /\ filesBelow = NotYet /\ files = <<>> /\ sortedFiles = NotYet
    /\ ConfigIdle /\ MergeIdle /\ UtilIdle

\* main: parseCliArgs, then --version, --help, or the command
Main ==
    /\ pc = "Main"
    /\ LET code == ParseCliArgsExit(argv)
       IN IF code # -1
          THEN /\ pc' = "Exited" /\ exitCode' = code
               /\ stderr' = Append(stderr, TextDoc("usage-error"))
               /\ UNCHANGED <<stdout, options>>
          ELSE IF argv.version \/ argv.help
          THEN /\ pc' = "Exited" /\ exitCode' = 0
               /\ stdout' = Append(stdout, TextDoc(IF argv.version THEN "version" ELSE "help"))
               /\ UNCHANGED <<stderr, options>>
          ELSE IF argv.command \in {"init", "check"}
          THEN /\ pc' = "OtherCommand"
               /\ UNCHANGED <<exitCode, stdout, stderr, options>>
          ELSE /\ pc' = "LoadingConfig"
               /\ options' = CliOptions(argv)
               /\ UNCHANGED <<exitCode, stdout, stderr>>
    /\ UNCHANGED <<utilVars, fsVars, configVars, mergeVars, coverageVars, entry, argv, config, coveragePath>>

\* options.verbose ?? false
Verbose == Truthy(options.verbose)

\* reportCommand, step 1: loadConfig seeded with the options
LoadingConfig ==
    /\ pc = "LoadingConfig"
    /\ config' = loadConfig(Some(Obj(options.threshold, JUndef, options.fail, options.coveragePath)),
                            pkgJson, configFile).value
    /\ LET s1 == logVerbose(Verbose, Streams(stdout, stderr), "Loading configuration...")
           s2 == logVerbose(Verbose, s1, "Config loaded")
       IN stdout' = s2.out /\ stderr' = s2.err
    /\ pc' = "ResolvingPath"
    /\ UNCHANGED <<utilVars, fsVars, configVars, mergeVars, coverageVars,
                   entry, argv, options, coveragePath, exitCode>>

\* variant: once the path is resolved the configuration is loaded again
ResolvingPath_Restarts ==
    /\ pc = "ResolvingPath"
    /\ coveragePath' = resolvePath(config.coveragePath.s)
    /\ pc' = "LoadingConfig"
    /\ UNCHANGED <<utilVars, fsVars, configVars, mergeVars, coverageVars,
                   entry, argv, options, config, exitCode, stdout, stderr>>

ResolvingPath ==
    /\ pc = "ResolvingPath"
    /\ coveragePath' = resolvePath(config.coveragePath.s)
    /\ LET s1 == logVerbose(Verbose, Streams(stdout, stderr), "Coverage path")
       IN stdout' = s1.out /\ stderr' = s1.err
    /\ pc' = "CheckingExistence"
    /\ UNCHANGED <<utilVars, fsVars, configVars, mergeVars, coverageVars,
                   entry, argv, options, config, exitCode>>

CheckingExistence ==
    /\ pc = "CheckingExistence"
    /\ IF ~fileExists(disk[coveragePath])
       THEN /\ IF Truthy(options.json)
               THEN /\ stdout' = Append(stdout, ErrorDoc(TRUE, "Coverage file not found", coveragePath, ""))
                    /\ UNCHANGED stderr
               ELSE /\ stderr' = stderr \o <<ErrorDoc(FALSE, "Coverage file not found", coveragePath, ""),
                                             TextDoc("hint")>>
                    /\ UNCHANGED stdout
            /\ exitCode' = 2
            /\ pc' = "Done"
       ELSE /\ pc' = "Parsing"
            /\ UNCHANGED <<stdout, stderr, exitCode>>
    /\ UNCHANGED <<utilVars, fsVars, configVars, mergeVars, coverageVars,
                   entry, argv, options, config, coveragePath>>

\* variant: parseCoverageSummary is called outside any try
Parsing_NoCatch ==
    /\ pc = "Parsing"
    /\ LET r == parseCoverageSummary(disk[coveragePath])
       IN IF ~r.ok
          THEN /\ pc' = "Thrown"
               /\ UNCHANGED <<summary, stdout, stderr>>
          ELSE /\ summary' = r.value
               /\ pc' = "Filtering"
               /\ UNCHANGED <<stdout, stderr>>
    /\ UNCHANGED <<utilVars, fsVars, configVars, mergeVars, threshold, filesBelow, files, sortedFiles,
                   entry, argv, options, config, coveragePath, exitCode>>

\* variant: the coverage file is removed once it has been read
Parsing_Consuming ==
    /\ pc = "Parsing"
    /\ LET r == parseCoverageSummary(disk[coveragePath])
           s1 == logVerbose(Verbose, Streams(stdout, stderr), "Parsing coverage summary...")
           s2 == logVerbose(Verbose, s1, "Parsed files")
       IN IF ~r.ok
          THEN /\ IF Truthy(options.json)
                  THEN /\ stdout' = Append(s1.out, ErrorDoc(TRUE, "Failed to parse coverage file", "", r.err))
                       /\ stderr' = s1.err
                  ELSE /\ stderr' = Append(s1.err, ErrorDoc(FALSE, "Failed to parse coverage file", "", r.err))
                       /\ stdout' = s1.out
               /\ exitCode' = 2
               /\ pc' = "Done"
               /\ UNCHANGED summary
          ELSE /\ summary' = r.value
               /\ stdout' = s2.out /\ stderr' = s2.err
               /\ pc' = "Filtering"
               /\ UNCHANGED exitCode
    /\ disk' = [disk EXCEPT ![coveragePath] = AbsentCov]
    /\ UNCHANGED <<utilVars, pkgJson, configFile, configVars, mergeVars, threshold, filesBelow,
                   files, sortedFiles, entry, argv, options, config, coveragePath>>

Parsing ==
    /\ pc = "Parsing"
    /\ LET r == parseCoverageSummary(disk[coveragePath])
           s1 == logVerbose(Verbose, Streams(stdout, stderr), "Parsing coverage summary...")
           s2 == logVerbose(Verbose, s1, "Parsed files")
       IN IF ~r.ok
          THEN /\ IF Truthy(options.json)
                  THEN /\ stdout' = Append(s1.out, ErrorDoc(TRUE, "Failed to parse coverage file", "", r.err))
                       /\ stderr' = s1.err
                  ELSE /\ stderr' = Append(s1.err, ErrorDoc(FALSE, "Failed to parse coverage file", "", r.err))
                       /\ stdout' = s1.out
               /\ exitCode' = 2
               /\ pc' = "Done"
               /\ UNCHANGED summary
          ELSE /\ summary' = r.value
               /\ stdout' = s2.out /\ stderr' = s2.err
               /\ pc' = "Filtering"
               /\ UNCHANGED exitCode
    /\ UNCHANGED <<utilVars, fsVars, configVars, mergeVars, threshold, filesBelow, files, sortedFiles,
                   entry, argv, options, config, coveragePath>>

\* filter at the resolved threshold, then sort
Filtering ==
    /\ pc = "Filtering"
    /\ LET below == filterBelowThreshold(summary, config.threshold.n)
           r == sortByPercentage(below)
           s1 == logVerbose(Verbose, Streams(stdout, stderr), "Filtering files")
           s2 == logVerbose(Verbose, s1, "Found files below threshold")
           s3 == logVerbose(Verbose, s2, "Sorting files")
       IN /\ threshold' = config.threshold.n
          /\ files' = below
          /\ filesBelow' = Done(r.input)
          /\ sortedFiles' = Done(r.output)
          /\ stdout' = s3.out /\ stderr' = s3.err
    /\ pc' = "Formatting"
    /\ UNCHANGED <<utilVars, fsVars, configVars, mergeVars, summary,
                   entry, argv, options, config, coveragePath, exitCode>>

\* print the report and decide the exit code
Formatting ==
    /\ pc = "Formatting"
    /\ stdout' = Append(stdout, IF Truthy(options.json)
                                THEN formatReportJson(sortedFiles.value, config.threshold)
                                ELSE formatReport(sortedFiles.value, config.threshold))
    /\ exitCode' = ExitCodeFor(sortedFiles.value, config)
    /\ pc' = "Done"
    /\ UNCHANGED <<utilVars, fsVars, configVars, mergeVars, coverageVars,
                   entry, argv, options, config, coveragePath, stderr>>

Next ==
    \/ Main
    \/ LoadingConfig
    \/ ResolvingPath
    \/ CheckingExistence
    \/ Parsing
    \/ Filtering
    \/ Formatting

Spec == Init /\ [][Next]_vars

\* the code of a run is synchronous and awaits nothing: once started it is
\* executed to its end

----------------------------------------------------------------------------
(* SpecPair: two invocations of reportCommand in the same project         *)
(* directory, each a process of its own, interleaved at every step        *)

PairCfgFiles ==
    { AbsentFile,
      File("json", "object", "undefined", Obj(JNum(0), JUndef, JUndef, JUndef)) }

PairContents ==
    { AbsentCov,
      CovFile("badjson", Data("undefined", <<>>)),
      CovFile("json", LowSummary),
      CovFile("json", CoveredSummary) }

PairDisks ==
    { d \in [CoveragePaths -> PairContents] :
        /\ d["/project/pkg/summary.json"] = AbsentCov
        /\ d["/project/cfg/summary.json"] = AbsentCov
        /\ d["/fixtures/summary.json"] \in OtherPathContents }

PairOptions ==
    { Options(JUndef, fl, js, cp, JUndef) :
        fl \in {JUndef, JBool(TRUE)},
        js \in {JUndef, JBool(TRUE)},
        cp \in {JUndef, JStr("/fixtures/summary.json")} }

\* the variables of an invocation that has not started
Invocation(o) ==
    [pc |-> "LoadingConfig", options |-> o, config |-> EmptyObj, coveragePath |-> "",
     stdout |-> <<>>, stderr |-> <<>>, exitCode |-> -1,
     summary |-> Data("undefined", <<>>), threshold |-> 0, filesBelow |-> NotYet,
     files |-> <<>>, sortedFiles |-> NotYet]

\* the variables of the invocation that is running
Running ==
    [pc |-> pc, options |-> options, config |-> config, coveragePath |-> coveragePath,
     stdout |-> stdout, stderr |-> stderr, exitCode |-> exitCode,
     summary |-> summary, threshold |-> threshold, filesBelow |-> filesBelow,
     files |-> files, sortedFiles |-> sortedFiles]

InitPair ==
    /\ pkgJson = AbsentFile
    /\ configFile \in PairCfgFiles
    /\ disk \in PairDisks
    /\ entry = "api" /\ argv = NoArgv /\ pc = "LoadingConfig"
    /\ options \in PairOptions
    /\ config = EmptyObj /\ coveragePath = "" /\ stdout = <<>> /\ stderr = <<>>
    /\ exitCode = -1
    /\ summary = Data("undefined", <<>>) /\ threshold = 0
    /\ filesBelow = NotYet /\ files = <<>> /\ sortedFiles = NotYet
    /\ \E o \in PairOptions : other = Invocation(o)
    /\ active = 1 /\ interfered = FALSE /\ project = <<>> /\ runs = <<>>
    /\ HeapIdle
    /\ ConfigIdle /\ MergeIdle /\ ValidationIdle /\ PathIdle /\ FileIdle

\* the operating system takes the processor from the running invocation
\* and gives it to the other one
Switch ==
    /\ active \in {1, 2}
    /\ other' = Running
    /\ active' = 3 - active
    /\ pc' = other.pc /\ options' = other.options /\ config' = other.config
    /\ coveragePath' = other.coveragePath
    /\ stdout' = other.stdout /\ stderr' = other.stderr /\ exitCode' = other.exitCode
    /\ summary' = other.summary /\ threshold' = other.threshold
    /\ filesBelow' = other.filesBelow /\ files' = other.files
    /\ sortedFiles' = other.sortedFiles
    /\ UNCHANGED <<fsVars, configVars, mergeVars, entry, argv, validated, returned, pathVars, fileVars,
                   interfered, initVars, heapVars>>

NextPair ==
    \/ LoadingConfig
    \/ ResolvingPath
    \/ CheckingExistence
    \/ Parsing
    \/ Filtering
    \/ Formatting
    \/ Switch

SpecPair == InitPair /\ [][NextPair]_vars

\* runs from the command line and direct calls in the project
\* directories of SpecPair
InitLive ==
    /\ pkgJson \in RunPkgFiles
    /\ configFile \in PairCfgFiles
    /\ disk \in PairDisks
    /\ \/ entry = "cli" /\ argv \in Argvs /\ options = NoOptions /\ pc = "Main"
       \/ entry = "api" /\ argv = NoArgv /\ options \in PairOptions /\ pc = "LoadingConfig"
    /\ config = EmptyObj /\ coveragePath = "" /\ stdout = <<>> /\ stderr = <<>>
    /\ exitCode = -1
    /\ summary = Data("undefined", <<>>) /\ threshold = 0
    /\ filesBelow = NotYet /\ files = <<>> /\ sortedFiles = NotYet
    /\ ConfigIdle /\ MergeIdle /\ UtilIdle

SpecLive == InitLive /\ [][Next]_vars /\ WF_vars(Next)

----------------------------------------------------------------------------
(* SpecFormat: formatReport and formatReportJson applied to every list of *)
(* up to MaxReport entries and every threshold                            *)

MaxReport == 2

ReportPaths == { "src/a.ts", "src/new\nline.ts" }

ReportEntries ==
    { ParsedFileCoverage(p, m[1], m[2], m[3]) :
        p \in ReportPaths, m \in {<<0, 0, 2000>>, <<526, 100, 1900>>, <<10000, 5000, 5000>>} }

ReportThresholds == { JNum(0), JNum(1000), JNum(526), JNaN, JInfinity }

InitFormat ==
    /\ \E n \in 0..MaxReport : \E fs \in [1..n -> ReportEntries] : sortedFiles = Done(fs)
    /\ \E t \in ReportThresholds : config = [DEFAULT_CONFIG EXCEPT !.threshold = t]
    /\ pc = "Idle" /\ entry = "none" /\ argv = NoArgv /\ options = NoOptions
    /\ coveragePath = "" /\ stdout = <<>> /\ stderr = <<>> /\ exitCode = -1
    /\ summary = Data("undefined", <<>>) /\ threshold = 0 /\ filesBelow = NotYet /\ files = <<>>
    /\ FsIdle /\ ConfigIdle /\ MergeIdle /\ UtilIdle

CallFormatReport ==
    /\ stdout = <<>>
    /\ stdout' = <<formatReport(sortedFiles.value, config.threshold)>>
    /\ UNCHANGED <<utilVars, fsVars, configVars, mergeVars, coverageVars,
                   pc, entry, argv, options, config, coveragePath, stderr, exitCode>>

CallFormatReportJson ==
    /\ stdout = <<>>
    /\ stdout' = <<formatReportJson(sortedFiles.value, config.threshold)>>
    /\ UNCHANGED <<utilVars, fsVars, configVars, mergeVars, coverageVars,
                   pc, entry, argv, options, config, coveragePath, stderr, exitCode>>

NextFormat == CallFormatReport \/ CallFormatReportJson

SpecFormat == InitFormat /\ [][NextFormat]_vars

----------------------------------------------------------------------------
(* src/commands/init.ts, src/lib/package-json.ts, src/lib/detect.ts:      *)
(* initCommand in a project directory.  The directory is a record:        *)
(* pkg is package.json, locks the lockfiles that exist, configs maps each *)
(* vitest or vite config file that exists to its content, gitignore is    *)
(* .gitignore with its text, readonly tells that every write fails.       *)

\* package.json: state as for File; top is the type of the JSON value;
\* scripts is its scripts member, t the type and map the commands by name;
\* layout tells who wrote the text last, the user or JSON.stringify
Pkg(state, top, t, map, layout) ==
    [state |-> state, top |-> top, scripts |-> [t |-> t, map |-> map], layout |-> layout]

Gitignore(state, text) == [state |-> state, text |-> text]

SCRIPTS_TO_ADD ==
    << <<"test:coverage", "vitest run --coverage">>, <<"coverage:low", "uncov">> >>

LOCKFILE_MAP ==
    << <<"pnpm-lock.yaml", "pnpm">>, <<"bun.lockb", "bun">>,
       <<"package-lock.json", "npm">>, <<"yarn.lock", "yarn">> >>

VITEST_CONFIG_FILES ==
    << "vitest.config.ts", "vitest.config.js", "vitest.config.mts", "vitest.config.mjs",
       "vite.config.ts", "vite.config.js", "vite.config.mts", "vite.config.mjs" >>

\* a line printed by initCommand
Line(kind, details) == [TextDoc(kind) EXCEPT !.details = details]

\* the first element of a list that satisfies a test, 0 when none does
First(list, Test(_)) ==
    IF \E i \in DOMAIN list : Test(list[i])
    THEN CHOOSE i \in DOMAIN list : Test(list[i]) /\ \A j \in 1..(i - 1) : ~Test(list[j])
    ELSE 0

detectPackageManager(p) ==
    LET i == First(LOCKFILE_MAP, LAMBDA e : e[1] \in p.locks)
    IN IF i = 0 THEN "npm" ELSE LOCKFILE_MAP[i][2]

\* the name of the first config file that exists, "" for null
detectVitestConfig(p) ==
    LET i == First(VITEST_CONFIG_FILES, LAMBDA f : f \in DOMAIN p.configs)
    IN IF i = 0 THEN "" ELSE VITEST_CONFIG_FILES[i]

\* hasVitestConfig(cwd): one of the config files exists
hasVitestConfig(p) == \E i \in DOMAIN VITEST_CONFIG_FILES : VITEST_CONFIG_FILES[i] \in DOMAIN p.configs

\* createVitestConfig(): the text of a config with coverage settings
createVitestConfig == "generated"

\* line.trim() of a line with spaces around it
RECURSIVE trim(_)
trim(line) ==
    IF line = <<>> THEN line
    ELSE IF Head(line) = SP THEN trim(Tail(line))
    ELSE IF line[Len(line)] = SP THEN trim(SubSeq(line, 1, Len(line) - 1))
    ELSE line

\* variant: only the line "coverage" counts
CoverageLine_ExactOnly(line) == line = <<"coverage">>

\* the test detectGitignore makes of a trimmed line; the word coverage is
\* one element of the text
CoverageLine(line) ==
    /\ line # <<>>
    /\ line[1] # "#"
    /\ \/ \E i \in DOMAIN line :
             line[i] = "coverage" /\ \A j \in DOMAIN line : j # i => line[j] \in {"/", "*"}
       \/ line[1] = "coverage"
       \/ endsWith(line, <<"/", "coverage">>)
       \/ endsWith(line, <<"/", "coverage", "/">>)

detectGitignore(p) ==
    IF p.gitignore.state = "absent" THEN [exists |-> FALSE, hasCoverage |-> FALSE]
    ELSE IF p.gitignore.state = "unreadable" THEN [exists |-> TRUE, hasCoverage |-> FALSE]
    ELSE LET lines == SplitLines(p.gitignore.text)
         IN [exists |-> TRUE,
             hasCoverage |-> \E i \in DOMAIN lines : CoverageLine(trim(lines[i]))]

\* variant: a script that exists is set again
Skips_Never(held, name) == FALSE

\* pkg.scripts[name] !== undefined
Skips(held, name) == name \in DOMAIN held

CommandOf(name) ==
    LET i == First(SCRIPTS_TO_ADD, LAMBDA e : e[1] = name) IN SCRIPTS_TO_ADD[i][2]

\* addScripts(SCRIPTS_TO_ADD, path): the directory it leaves, the names it
\* added and skipped, whether it threw and the files it wrote.  It throws
\* when package.json cannot be read, when the JSON value is null, when
\* scripts is a string (a member cannot be set on it) and when the write
\* fails; a scripts member that is absent or null is replaced by {}; the
\* members set on an array are not written by JSON.stringify
addScripts(p) ==
    LET pkg == p.pkg
        held == IF pkg.scripts.t = "object" THEN pkg.scripts.map ELSE <<>>
        names == [i \in DOMAIN SCRIPTS_TO_ADD |-> SCRIPTS_TO_ADD[i][1]]
        added == SelectSeq(names, LAMBDA n : ~Skips(held, n))
        skipped == SelectSeq(names, LAMBDA n : Skips(held, n))
        addedSet == { added[i] : i \in DOMAIN added }
        map == [n \in DOMAIN held \cup addedSet |-> IF n \in addedSet THEN CommandOf(n) ELSE held[n]]
        written == IF pkg.top = "array" THEN [pkg EXCEPT !.layout = "stringify"]
                   ELSE [pkg EXCEPT !.scripts = [t |-> "object", map |-> map],
                                    !.layout = "stringify"]
        Threw == [project |-> p, added |-> <<>>, skipped |-> <<>>, threw |-> TRUE, writes |-> <<>>]
    IN IF pkg.state # "json" \/ pkg.top = "null" THEN Threw
       ELSE IF pkg.scripts.t = "string" /\ added # <<>> THEN Threw
       ELSE IF added = <<>>
       THEN [project |-> p, added |-> added, skipped |-> skipped, threw |-> FALSE, writes |-> <<>>]
       ELSE IF p.readonly THEN Threw
       ELSE [project |-> [p EXCEPT !.pkg = written], added |-> added, skipped |-> skipped,
             threw |-> FALSE, writes |-> <<"package.json">>]

\* what a step of initCommand does: the directory it leaves, the lines it
\* prints, whether it threw and the files it wrote
Step(p, out, threw, writes) == [project |-> p, out |-> out, threw |-> threw, writes |-> writes]

InitOptions(force, dryRun) == [force |-> force, dryRun |-> dryRun]

\* step 2 without dry run
ScriptsApplied(p) ==
    LET r == addScripts(p)
    IN Step(r.project,
         [i \in DOMAIN r.added |-> Line("added-script", r.added[i])]
         \o [i \in DOMAIN r.skipped |-> Line("skipped-script", r.skipped[i])],
         r.threw, r.writes)

\* variant: the scripts are added in a dry run too
ScriptsStep_NoDryRun(p, o) == ScriptsApplied(p)

\* step 2: add the scripts to package.json
ScriptsStep(p, o) ==
    IF o.dryRun
    THEN Step(p, [i \in DOMAIN SCRIPTS_TO_ADD |-> Line("would-add-script", SCRIPTS_TO_ADD[i][1])],
           FALSE, <<>>)
    ELSE ScriptsApplied(p)

\* writeText(vitestConfigPath, createVitestConfig())
WriteConfig(p, kind) ==
    IF p.readonly THEN Step(p, <<>>, TRUE, <<>>)
    ELSE Step([p EXCEPT !.configs = [f \in DOMAIN p.configs \cup {"vitest.config.ts"} |->
                                    IF f = "vitest.config.ts" THEN createVitestConfig
                                    ELSE p.configs[f]]],
           <<Line(kind, "vitest.config.ts")>>, FALSE, <<"vitest.config.ts">>)

\* variant: an existing config is overwritten without force
ConfigStep_Overwrites(p, o) ==
    LET existingConfig == detectVitestConfig(p)
    IN IF o.dryRun THEN Step(p, <<>>, FALSE, <<>>)
       ELSE IF existingConfig # "" THEN WriteConfig(p, "overwrote-config")
       ELSE IF ~hasVitestConfig(p) THEN WriteConfig(p, "created-config")
       ELSE Step(p, <<>>, FALSE, <<>>)

\* step 3: the vitest config
ConfigStep(p, o) ==
    LET existingConfig == detectVitestConfig(p)
    IN IF o.dryRun
       THEN IF existingConfig # "" /\ ~o.force
            THEN Step(p, <<Line("would-skip-config", existingConfig)>>, FALSE, <<>>)
            ELSE IF existingConfig # "" /\ o.force
            THEN Step(p, <<Line("would-overwrite-config", "vitest.config.ts")>>, FALSE, <<>>)
            ELSE IF ~hasVitestConfig(p)
            THEN Step(p, <<Line("would-create-config", "vitest.config.ts")>>, FALSE, <<>>)
            ELSE Step(p, <<>>, FALSE, <<>>)
       ELSE IF existingConfig # "" /\ ~o.force
       THEN Step(p, <<Line("skipped-config", existingConfig), Line("use-force", "")>>, FALSE, <<>>)
       ELSE IF existingConfig # "" /\ o.force THEN WriteConfig(p, "overwrote-config")
       ELSE IF ~hasVitestConfig(p) THEN WriteConfig(p, "created-config")
       ELSE Step(p, <<>>, FALSE, <<>>)

\* appendLine(gitignorePath, "coverage/"): an existing file is read, then
\* appended to; a new one is written
AppendCoverage(p) ==
    LET line == <<"coverage", "/">>
        g == p.gitignore
    IN IF g.state = "unreadable" \/ p.readonly THEN Step(p, <<>>, TRUE, <<>>)
       ELSE IF g.state = "absent"
       THEN Step([p EXCEPT !.gitignore = Gitignore("text", line \o <<LF>>)],
              <<Line("created-gitignore", "")>>, FALSE, <<".gitignore">>)
       ELSE Step([p EXCEPT !.gitignore = Gitignore("text", g.text \o lineToAppend(g.text, line))],
              <<Line("added-to-gitignore", "")>>, FALSE, <<".gitignore">>)

\* step 4: .gitignore
GitignoreStep(p, o) ==
    LET gitignoreResult == detectGitignore(p)
    IN IF o.dryRun
       THEN Step(p, <<Line(IF gitignoreResult.hasCoverage THEN "would-skip-gitignore"
                        ELSE IF gitignoreResult.exists THEN "would-append-gitignore"
                        ELSE "would-create-gitignore", "")>>, FALSE, <<>>)
       ELSE IF gitignoreResult.hasCoverage
       THEN Step(p, <<Line("skipped-gitignore", "")>>, FALSE, <<>>)
       ELSE AppendCoverage(p)

----------------------------------------------------------------------------
(* SpecInit: up to MaxRuns runs of initCommand with the same options, one *)
(* after the other, in every project directory                            *)

MaxRuns == 2

ScriptMaps ==
    { <<>>,
      [n \in {"build"} |-> "tsc"],
      [n \in {"test:coverage"} |-> "jest --coverage"],
      [n \in {"coverage:low", "build"} |-> "tsc"],
      [n \in {"test:coverage", "coverage:low"} |-> IF n = "coverage:low" THEN "uncov" ELSE "c8 npm test"] }

PackageJsons ==
    { Pkg("absent", "undefined", "undefined", <<>>, "user"),
      Pkg("unreadable", "undefined", "undefined", <<>>, "user"),
      Pkg("badjson", "undefined", "undefined", <<>>, "user"),
      Pkg("json", "null", "undefined", <<>>, "user"),
      Pkg("json", "array", "undefined", <<>>, "user"),
      Pkg("json", "object", "undefined", <<>>, "user"),
      Pkg("json", "object", "null", <<>>, "user"),
      Pkg("json", "object", "string", <<>>, "user") }
    \cup { Pkg("json", "object", "object", m, "user") : m \in ScriptMaps }

Lockfiles == { {}, {"yarn.lock"}, {"bun.lockb", "package-lock.json"} }

ConfigsPresent ==
    { {}, {"vitest.config.ts"}, {"vite.config.js"}, {"vitest.config.mjs", "vite.config.ts"},
      {"vitest.config.ts", "vite.config.js"} }

Gitignores ==
    { Gitignore("absent", <<>>),
      Gitignore("unreadable", <<>>),
      Gitignore("text", <<>>),
      Gitignore("text", <<"node_modules", LF>>),
      Gitignore("text", <<"node_modules">>),
      Gitignore("text", <<"#", SP, "coverage", LF, "dist", LF>>),
      Gitignore("text", <<"dist", LF, SP, "/", "coverage", "/", SP, LF>>),
      Gitignore("text", <<"build", "/", "coverage">>) }

InitInit ==
    /\ \E pkg \in PackageJsons, locks \in Lockfiles, present \in ConfigsPresent,
          g \in Gitignores, ro \in BOOLEAN :
          project = [pkg |-> pkg, locks |-> locks, configs |-> [f \in present |-> "user"],
                     gitignore |-> g, readonly |-> ro]
    /\ \E force, dryRun \in BOOLEAN :
          runs = [options |-> InitOptions(force, dryRun), n |-> 1, atStart |-> project,
                  codes |-> <<>>, writes |-> <<>>]
    /\ pc = "CheckingPackageJson" /\ entry = "init" /\ argv = NoArgv /\ options = NoOptions
    /\ config = EmptyObj /\ coveragePath = "" /\ stdout = <<>> /\ stderr = <<>>
    /\ exitCode = -1
    /\ FsIdle /\ ConfigIdle /\ MergeIdle /\ CoverageIdle
    /\ ValidationIdle /\ PathIdle /\ FileIdle
    /\ other = <<>> /\ active = 0 /\ interfered = FALSE /\ HeapIdle

InitFrame ==
    UNCHANGED <<fsVars, configVars, mergeVars, coverageVars, validated, returned, pathVars, fileVars,
                procVars, heapVars, entry, argv, options, config, coveragePath>>

\* the dry-run banner, the check that package.json exists and can be read,
\* and step 1
CheckingPackageJson ==
    /\ pc = "CheckingPackageJson"
    /\ LET banner == IF runs.options.dryRun THEN <<Line("dry-run", ""), Line("blank", "")>>
                     ELSE <<>>
       IN IF project.pkg.state = "absent"
          THEN /\ stdout' = stdout \o banner
               /\ stderr' = stderr \o <<Line("no-package-json", ""), Line("run-npm-init", "")>>
               /\ exitCode' = 2 /\ pc' = "Returned"
          ELSE IF project.pkg.state # "json"
          THEN /\ stdout' = stdout \o banner
               /\ stderr' = Append(stderr, Line("failed-to-read-package-json", ""))
               /\ exitCode' = 2 /\ pc' = "Returned"
          ELSE /\ stdout' = stdout \o banner
                    \o <<Line(IF runs.options.dryRun THEN "would-detect" ELSE "detected",
                              detectPackageManager(project))>>
               /\ pc' = "AddingScripts"
               /\ UNCHANGED <<stderr, exitCode>>
    /\ UNCHANGED <<project, runs>>
    /\ InitFrame

\* a step: its effect on the directory, its lines, and where it goes on
StepTaken(r, next) ==
    /\ project' = r.project
    /\ runs' = [runs EXCEPT !.writes = @ \o r.writes]
    /\ stdout' = stdout \o r.out
    /\ pc' = IF r.threw THEN "Thrown" ELSE next
    /\ UNCHANGED stderr
    /\ InitFrame

AddingScripts ==
    /\ pc = "AddingScripts"
    /\ StepTaken(ScriptsStep(project, runs.options), "WritingConfig")
    /\ UNCHANGED exitCode

WritingConfig ==
    /\ pc = "WritingConfig"
    /\ StepTaken(ConfigStep(project, runs.options), "UpdatingGitignore")
    /\ UNCHANGED exitCode

\* step 4, the final instructions and return 0
UpdatingGitignore ==
    /\ pc = "UpdatingGitignore"
    /\ LET r == GitignoreStep(project, runs.options)
       IN /\ StepTaken([r EXCEPT !.out = IF r.threw THEN @
                                         ELSE @ \o <<Line("blank", ""), Line("instructions", "")>>],
                       "Returned")
          /\ exitCode' = IF r.threw THEN exitCode ELSE 0

\* the same command is run once more
RunAgain ==
    /\ pc = "Returned"
    /\ runs.n < MaxRuns
    /\ runs' = [runs EXCEPT !.n = @ + 1, !.atStart = project, !.codes = Append(@, exitCode),
                            !.writes = <<>>]
    /\ pc' = "CheckingPackageJson"
    /\ stdout' = <<>> /\ stderr' = <<>> /\ exitCode' = -1
    /\ UNCHANGED project
    /\ InitFrame

NextInit ==
    \/ CheckingPackageJson
    \/ AddingScripts
    \/ WritingConfig
    \/ UpdatingGitignore
    \/ RunAgain

SpecInit == InitInit /\ [][NextInit]_vars

----------------------------------------------------------------------------
(* SpecAlias: the exclude lists as the array objects they are. A caller     *)
(* calls mergeConfigs and loadConfig and changes the exclude list of a      *)
(* configuration it was given back                                          *)

\* a reference to the array object at address a; what the array holds is
\* arrays[a]
Ref(a) == [JArr(<<>>) EXCEPT !.n = a]

\* the address of the array literal of DEFAULT_CONFIG, created once, when
\* config.ts is loaded
DefaultExclude == DEFAULT_CONFIG.exclude.n

\* a new array object holding list
Allocate(heap, list) ==
    [a \in 0..Cardinality(DOMAIN heap) |-> IF a \in DOMAIN heap THEN heap[a] ELSE list]

NextAddress == Cardinality(DOMAIN arrays)

MaxCalls == 2
MaxPatterns == 1
Patterns == {JStr("*.test.ts")}
ExcludeLists == {<<JStr("dist")>>}

\* a partial config whose only field is the exclude list ex
PartialOf(ex) == Obj(JUndef, ex, JUndef, JUndef)

\* a file holding a configuration object with the exclude field ex; where
\* is "pkg" for package.json and "cfg" for uncov.config.json
FileWith(where, ex) ==
    File("json", "object", IF where = "pkg" THEN "object" ELSE "undefined",
         PartialOf(ex))

InitAlias ==
    /\ arrays = [a \in {DefaultExclude} |-> DEFAULT_CONFIG.exclude.l]
    /\ passed = {}
    /\ calls = <<>>
    /\ FsIdle /\ ConfigIdle /\ MergeIdle /\ CoverageIdle /\ RunIdle
    /\ ValidationIdle /\ PathIdle /\ FileIdle
    /\ other = <<>> /\ active = 0 /\ interfered = FALSE /\ project = <<>> /\ runs = <<>>

AliasFrame ==
    UNCHANGED <<fsVars, configVars, mergeVars, coverageVars, runVars, validated, returned,
                pathVars, fileVars, procVars, initVars>>

\* the caller calls mergeConfigs() or mergeConfigs(partial); an exclude list
\* in the partial is an array the caller made
CallerMerges ==
    /\ Len(calls) < MaxCalls
    /\ \E n \in 0..1, hasExclude \in BOOLEAN, list \in ExcludeLists :
          /\ n = 0 => ~hasExclude
          /\ LET a == NextAddress
                 byRef == PartialOf(IF hasExclude THEN Ref(a) ELSE JUndef)
                 byValue == PartialOf(IF hasExclude THEN JArr(list) ELSE JUndef)
             IN /\ arrays' = IF hasExclude THEN Allocate(arrays, list) ELSE arrays
                /\ passed' = IF hasExclude THEN passed \cup {a} ELSE passed
                /\ calls' = Append(calls,
                      [fn |-> "mergeConfigs",
                       args |-> IF n = 1 THEN <<byValue>> ELSE <<>>,
                       pkg |-> AbsentFile, cfg |-> AbsentFile,
                       config |-> mergeConfigs(IF n = 1 THEN <<byRef>> ELSE <<>>)])
    /\ AliasFrame

\* the caller calls loadConfig() or loadConfig(cliOverrides) in a directory
\* where package.json or uncov.config.json may hold an exclude list;
\* JSON.parse makes a new array for the list of a file each time it is read
CallerLoads ==
    /\ Len(calls) < MaxCalls
    /\ \E where \in {"none", "pkg", "cfg"}, fileList \in ExcludeLists,
          n \in 0..1, hasExclude \in BOOLEAN, list \in ExcludeLists :
          /\ n = 0 => ~hasExclude
          /\ LET parsed == NextAddress
                 heap == IF where = "none" THEN arrays ELSE Allocate(arrays, fileList)
                 a == Cardinality(DOMAIN heap)
                 AsFile(w, ex) == IF where = w THEN FileWith(w, ex) ELSE AbsentFile
                 byRef == PartialOf(IF hasExclude THEN Ref(a) ELSE JUndef)
                 byValue == PartialOf(IF hasExclude THEN JArr(list) ELSE JUndef)
             IN /\ arrays' = IF hasExclude THEN Allocate(heap, list) ELSE heap
                /\ passed' = IF hasExclude THEN passed \cup {a} ELSE passed
                /\ calls' = Append(calls,
                      [fn |-> "loadConfig",
                       args |-> IF n = 1 THEN <<byValue>> ELSE <<>>,
                       pkg |-> AsFile("pkg", JArr(fileList)),
                       cfg |-> AsFile("cfg", JArr(fileList)),
                       config |-> loadConfig(IF n = 1 THEN Some(byRef) ELSE None,
                                             AsFile("pkg", Ref(parsed)),
                                             AsFile("cfg", Ref(parsed))).value])
    /\ AliasFrame

\* the caller adds a pattern to the exclude list of a configuration it was
\* given back: config.exclude.push(pattern)
CallerPushes ==
    /\ \E i \in 1..Len(calls), pattern \in Patterns :
          LET a == calls[i].config.exclude.n
          IN /\ Len(arrays[a]) < MaxPatterns
             /\ arrays' = [arrays EXCEPT ![a] = Append(@, pattern)]
    /\ UNCHANGED <<passed, calls>>
    /\ AliasFrame

\* the caller gives a configuration it was given back a new exclude list:
\* config.exclude = [pattern]
CallerAssigns ==
    /\ \E i \in 1..Len(calls), pattern \in Patterns :
          /\ calls[i].config.exclude.n \in {DefaultExclude} \cup passed
          /\ arrays' = Allocate(arrays, <<pattern>>)
          /\ calls' = [calls EXCEPT ![i].config.exclude = Ref(NextAddress)]
    /\ UNCHANGED passed
    /\ AliasFrame

NextAlias ==
    \/ CallerMerges
    \/ CallerLoads
    \/ CallerPushes
    \/ CallerAssigns

SpecAlias == InitAlias /\ [][NextAlias]_vars

----------------------------------------------------------------------------
(* SpecRace: reportCommand while another process removes or spoils the     *)
(* coverage file between the existence test and the read                   *)

\* what the other process leaves at the path: nothing, a file that cannot
\* be read, text that is not JSON, JSON that is no coverage summary
SpoiledContents ==
    { AbsentCov,
      CovFile("unreadable", Data("undefined", <<>>)),
      CovFile("badjson", Data("undefined", <<>>)),
      CovFile("json", Data("null", <<>>)),
      CovFile("json", Data("object", <<Entry("src/a.ts", ValidCov(0, 0, 2000))>>)),
      CovFile("json", BrokenEntrySummary) }

RaceDisks ==
    { d \in [CoveragePaths -> DefaultPathContents] :
        /\ d["/project/pkg/summary.json"] = AbsentCov
        /\ d["/project/cfg/summary.json"] = AbsentCov
        /\ d["/fixtures/summary.json"] \in OtherPathContents }

InitRace ==
    /\ pkgJson = AbsentFile
    /\ configFile \in PairCfgFiles
    /\ disk \in RaceDisks
    /\ entry = "api" /\ argv = NoArgv /\ pc = "LoadingConfig"
    /\ options \in PairOptions
    /\ config = EmptyObj /\ coveragePath = "" /\ stdout = <<>> /\ stderr = <<>>
    /\ exitCode = -1
    /\ CoverageIdle /\ ConfigIdle /\ MergeIdle /\ UtilIdle

\* the other process acts after fileExists has answered true and before
\* parseCoverageSummary reads the file
Interfere ==
    /\ pc = "Parsing"
    /\ ~interfered
    /\ \E f \in SpoiledContents : disk' = [disk EXCEPT ![coveragePath] = f]
    /\ interfered' = TRUE
    /\ UNCHANGED <<pkgJson, configFile, configVars, mergeVars, coverageVars, runVars,
                   validated, returned, pathVars, fileVars, other, active, initVars, heapVars>>

\* the steps of reportCommand
ReportCommand ==
    \/ LoadingConfig
    \/ ResolvingPath
    \/ CheckingExistence
    \/ Parsing
    \/ Filtering
    \/ Formatting

NextRace ==
    \/ LoadingConfig
    \/ ResolvingPath
    \/ CheckingExistence
    \/ Parsing
    \/ Filtering
    \/ Formatting
    \/ Interfere

\* reportCommand awaits nothing: once called it runs to its return
SpecRace == InitRace /\ [][NextRace]_vars /\ WF_vars(ReportCommand)

----------------------------------------------------------------------------
(* Claims about the configuration resolver *)

Defined(v) == v.t # "undefined"

\* what each source holds for the resolver, field by field
OverrideSection == IF cliOverrides.some THEN cliOverrides.value ELSE EmptyObj
ConfigFileSection ==
    IF ConfigFilePush(configFile).push = <<>> THEN EmptyObj
    ELSE ConfigFilePush(configFile).push[1]
PackageSection == readPackageJsonConfig(pkgJson).value.value

FirstDefined(k, sections) ==
    IF Defined(sections[1][k]) THEN sections[1][k]
    ELSE IF Defined(sections[2][k]) THEN sections[2][k]
    ELSE IF Defined(sections[3][k]) THEN sections[3][k]
    ELSE DEFAULT_CONFIG[k]

\* C3: per field, loadConfig returns the value of the overrides if they
\* define the field, else that of uncov.config.json, else that of the
\* package.json uncov section, else the default.
C3_Precedence ==
    loaded.done =>
        \A k \in Fields :
            loaded.value[k] =
                FirstDefined(k, <<OverrideSection, ConfigFileSection, PackageSection>>)

C3_Witness ==
    /\ loaded.done
    /\ Defined(OverrideSection.threshold)
    /\ Defined(ConfigFileSection.threshold)
    /\ Defined(PackageSection.threshold)
    /\ loaded.value.threshold = OverrideSection.threshold
    /\ ~Defined(OverrideSection.failOnLow)
    /\ Defined(ConfigFileSection.failOnLow) /\ Defined(PackageSection.failOnLow)
    /\ ConfigFileSection.failOnLow # PackageSection.failOnLow
    /\ loaded.value.failOnLow = ConfigFileSection.failOnLow
    /\ ~Defined(OverrideSection.exclude) /\ ~Defined(ConfigFileSection.exclude)
    /\ Defined(PackageSection.exclude)
    /\ loaded.value.exclude = PackageSection.exclude

\* a source that exists and cannot be used: unreadable, not JSON, or JSON
\* of the wrong shape
Corrupt(f) ==
    \/ f.state \in {"unreadable", "badjson"}
    \/ f.state = "json" /\ f.top # "object"

\* C4: loadConfig never throws, returns all four fields defined, and a
\* corrupt package.json or uncov.config.json leaves the result what it is
\* when that file is absent.
C4_NeverFails ==
    loaded.done =>
        /\ ~loaded.threw
        /\ \A k \in Fields : Defined(loaded.value[k])
        /\ Corrupt(pkgJson) =>
              loaded.value = loadConfig(cliOverrides, AbsentFile, configFile).value
        /\ Corrupt(configFile) =>
              loaded.value = loadConfig(cliOverrides, pkgJson, AbsentFile).value

C4_Witness ==
    /\ loaded.done
    /\ pkgJson.state = "json" /\ pkgJson.top = "null"
    /\ configFile.state = "badjson"
    /\ cliOverrides = None
    /\ loaded.value = DEFAULT_CONFIG

\* the field checks, as the configuration format states them
ValidField(k, v) ==
    CASE k = "threshold" -> v.t = "number" /\ 0 <= v.n /\ v.n <= 10000
      [] k = "exclude" -> v.t = "array" /\ \A i \in DOMAIN v.l : v.l[i].t = "string"
      [] k = "failOnLow" -> v.t = "boolean"
      [] k = "coveragePath" -> v.t = "string"

IsObjectFile(f) == f.state = "json" /\ f.top = "object"
HasUncovObject(f) == IsObjectFile(f) /\ f.uncov = "object"

\* C5: validation is per field: where the overrides leave a field
\* undefined, the effective value is the config file's if that field
\* passes its check there, else the package.json section's if it passes
\* there, else the default, whatever the other fields of those objects
\* are; a threshold outside [0,100] never becomes effective.
C5_PerFieldValidation ==
    loaded.done =>
        LET fileObj == IF IsObjectFile(configFile) THEN configFile.fields ELSE EmptyObj
            pkgObj == IF HasUncovObject(pkgJson) THEN pkgJson.fields ELSE EmptyObj
        IN \A k \in Fields :
            ~Defined(OverrideSection[k]) =>
                /\ loaded.value[k] =
                     IF ValidField(k, fileObj[k]) THEN fileObj[k]
                     ELSE IF ValidField(k, pkgObj[k]) THEN pkgObj[k]
                     ELSE DEFAULT_CONFIG[k]
                /\ k = "threshold" => loaded.value[k].n \in 0..10000

C5_Witness ==
    /\ loaded.done
    /\ cliOverrides = None
    /\ IsObjectFile(configFile)
    /\ configFile.fields.threshold = JNum(-1000)
    /\ configFile.fields.failOnLow = JBool(FALSE)
    /\ HasUncovObject(pkgJson)
    /\ pkgJson.fields.threshold = JNum(15000)
    /\ pkgJson.fields.failOnLow = JBool(TRUE)
    /\ loaded.value.threshold = DEFAULT_CONFIG.threshold
    /\ loaded.value.failOnLow = JBool(FALSE)

IsInteger(n) == n % 100 = 0

\* C6, as claimed: every configuration loadConfig returns has an integer
\* threshold within [0,100].
C6_ThresholdIntegerInRange ==
    loaded.done =>
        /\ loaded.value.threshold.t = "number"
        /\ loaded.value.threshold.n \in 0..10000
        /\ IsInteger(loaded.value.threshold.n)

\* C6, amended: when the overrides define a threshold loadConfig returns
\* it as given, unvalidated; otherwise the threshold it returns is a
\* number, not necessarily an integer, within [0,100].
C6_ThresholdNumberInRange ==
    loaded.done =>
        IF Defined(OverrideSection.threshold)
        THEN loaded.value.threshold = OverrideSection.threshold
        ELSE /\ loaded.value.threshold.t = "number"
             /\ loaded.value.threshold.n \in 0..10000

C6_Witness ==
    /\ loaded.done
    /\ ~Defined(OverrideSection.threshold)
    /\ HasUncovObject(pkgJson) /\ pkgJson.fields.threshold = JNum(15000)
    /\ IsObjectFile(configFile) /\ configFile.fields.threshold = JNum(-1000)
    /\ loaded.value.threshold = JNum(1000)

----------------------------------------------------------------------------
(* Claims about mergeConfigs *)

DefinedAt(k) == { i \in DOMAIN configs : Defined(configs[i][k]) }
Last(S) == CHOOSE i \in S : \A j \in S : j <= i

\* C7: for each field mergeConfigs returns the value of the last partial,
\* in argument order, that defines the field, or the default when none
\* does; with no argument it returns the default configuration.
C7_LastWriteWins ==
    merged.done =>
        /\ \A k \in Fields :
              merged.value[k] =
                  IF DefinedAt(k) = {} THEN DEFAULT_CONFIG[k]
                  ELSE configs[Last(DefinedAt(k))][k]
        /\ configs = <<>> => merged.value = DEFAULT_CONFIG

C7_Witness ==
    /\ merged.done
    /\ Len(configs) = 3
    /\ DefinedAt("threshold") = {1, 2}
    /\ merged.value.threshold = configs[2].threshold
    /\ configs[1].threshold # configs[2].threshold
    /\ DefinedAt("exclude") = {}
    /\ merged.value.exclude = DEFAULT_CONFIG.exclude

----------------------------------------------------------------------------
(* Claims about filterBelowThreshold and sortByPercentage *)

\* positions of the summary whose entry belongs in the list for threshold t
AtOrBelow(t) ==
    { i \in DOMAIN summary.entries :
        /\ summary.entries[i].key # "total"
        /\ summary.entries[i].value.lines.pct.n <= t }

\* the j-th position of S in increasing order
Nth(S, j) == CHOOSE i \in S : Cardinality({ k \in S : k < i }) = j - 1

\* C8: filterBelowThreshold returns, in key iteration order, one entry for
\* each key other than "total" whose lines.pct is <= t, and nothing else;
\* each entry carries the key and lines.pct, lines.covered, lines.total.
C8_FilterExact ==
    filesBelow.done =>
        LET sel == AtOrBelow(threshold)
            out == filesBelow.value
        IN /\ Len(out) = Cardinality(sel)
           /\ \A j \in DOMAIN out :
                LET e == summary.entries[Nth(sel, j)]
                IN /\ out[j].path = e.key
                   /\ out[j].linesPct = e.value.lines.pct.n
                   /\ out[j].linesCovered = e.value.lines.covered.n
                   /\ out[j].linesTotal = e.value.lines.total.n
           /\ \A j \in DOMAIN out : out[j].path # "total"

C8_Witness ==
    /\ filesBelow.done /\ ~sortedFiles.done
    /\ threshold = 526
    /\ Len(summary.entries) = 4
    /\ Lookup(summary.entries, "total").lines.pct.n = 0
    /\ summary.entries[1].key = "total"
    /\ \E i \in DOMAIN summary.entries :
          /\ summary.entries[i].key # "total"
          /\ summary.entries[i].value.lines.pct.n = 526
    /\ \E i \in DOMAIN summary.entries : summary.entries[i].value.lines.pct.n = 10000
    /\ Len(filesBelow.value) = 2
    /\ filesBelow.value[1].linesPct = 526
    /\ filesBelow.value[2].linesPct = 0

FileKeysOf(s) == KeysOf(s.entries) \ {"total"}
PathsOf(out) == { out[j].path : j \in DOMAIN out }

\* C9, as claimed: at threshold 100 the list holds every non-total file
\* of an accepted summary.
C9_AllFilesAtHundred ==
    (filesBelow.done /\ threshold = 10000) =>
        PathsOf(filesBelow.value) = FileKeysOf(summary)

\* C9, amended: at threshold 100 the list holds every non-total file whose
\* lines.pct is at most 100, so all of them when no file reports more; a
\* file reporting more than 100 is accepted by the validator and left out.
C9_AllFilesUpToHundred ==
    (filesBelow.done /\ threshold = 10000) =>
        /\ PathsOf(filesBelow.value) =
             { k \in FileKeysOf(summary) : Lookup(summary.entries, k).lines.pct.n <= 10000 }
        /\ (\A k \in FileKeysOf(summary) : Lookup(summary.entries, k).lines.pct.n <= 10000)
             => PathsOf(filesBelow.value) = FileKeysOf(summary)

C9_Witness ==
    /\ filesBelow.done
    /\ threshold = 10000
    /\ Cardinality(FileKeysOf(summary)) = 3
    /\ summary.entries[1].key # "total"
    /\ \E k \in FileKeysOf(summary) : Lookup(summary.entries, k).lines.pct.n = 10000
    /\ \A k \in FileKeysOf(summary) : Lookup(summary.entries, k).lines.pct.n <= 10000
    /\ Len(filesBelow.value) = 3

Perms(n) == { p \in [1..n -> 1..n] : \A i, j \in 1..n : i # j => p[i] # p[j] }

\* C10: sortByPercentage returns a permutation of its input in
\* non-decreasing linesPct order with equal linesPct kept in input order,
\* and the input list is left as it was.
C10_StableSort ==
    sortedFiles.done =>
        LET out == sortedFiles.value
            n == Len(files)
        IN /\ Len(out) = n
           /\ \E p \in Perms(n) :
                /\ \A i \in 1..n : out[i] = files[p[i]]
                /\ \A i, j \in 1..n :
                      i < j => \/ out[i].linesPct < out[j].linesPct
                               \/ out[i].linesPct = out[j].linesPct /\ p[i] < p[j]
           /\ filesBelow.value = files

C10_Witness ==
    /\ sortedFiles.done
    /\ Len(files) = 3
    /\ files[1].linesPct = 526 /\ files[2].linesPct = 0 /\ files[3].linesPct = 526
    /\ sortedFiles.value = <<files[2], files[1], files[3]>>
    /\ filesBelow.value = files

----------------------------------------------------------------------------
(* Claims about a run *)

\* the run produced a report: the coverage file existed and parsed
Reported == pc = "Done" /\ sortedFiles.done

\* C1: when the coverage file exists and parses, reportCommand returns 1
\* if and only if some file is at or below the resolved threshold and the
\* resolved failOnLow is true, and 0 otherwise.
C1_ExitCode ==
    Reported =>
        LET findings ==
                \E i \in DOMAIN summary.entries :
                    /\ summary.entries[i].key # "total"
                    /\ summary.entries[i].value.lines.pct.n <= config.threshold.n
        IN /\ exitCode \in {0, 1}
           /\ (exitCode = 1) <=> (findings /\ config.failOnLow = JBool(TRUE))

C1_Witness ==
    /\ Reported
    /\ exitCode = 1
    /\ config.failOnLow = JBool(TRUE)
    /\ Len(sortedFiles.value) = 2

\* what the configuration files alone resolve to
Configured == loadConfig(None, pkgJson, configFile).value

\* C2: run from the command line, the report uses the configured
\* threshold, failOnLow and coveragePath for every flag the user did not
\* give, and the flag's value for every flag the user gave.
C2_FlagsOverrideOnlyWhenGiven ==
    (entry = "cli" /\ pc \notin {"Main", "Exited", "OtherCommand", "LoadingConfig"}) =>
        /\ config.threshold =
             IF argv.threshold.t = "undefined" THEN Configured.threshold
             ELSE JNum(parseInt(argv.threshold.s).n)
        /\ config.failOnLow =
             IF argv.fail THEN JBool(TRUE) ELSE Configured.failOnLow
        /\ config.coveragePath =
             IF argv.coveragePath.t = "undefined" THEN Configured.coveragePath
             ELSE argv.coveragePath

\* the coverage file the run resolved to, and what is in it
CoverageFile == disk[coveragePath]
JsonMode == Truthy(options.json)

\* the entries of the coverage file the report has to list
Listed ==
    { i \in DOMAIN CoverageFile.data.entries :
        /\ CoverageFile.data.entries[i].key # "total"
        /\ CoverageFile.data.entries[i].value.lines.pct.n <= config.threshold.n }

\* C11: the report reportCommand prints lists exactly the non-total files
\* of the coverage file whose lines.pct is <= the resolved threshold, each
\* once, in non-decreasing lines.pct order, and the count it states is the
\* number of files it lists.
C11_ReportExact ==
    Reported =>
        LET doc == stdout[Len(stdout)]
            entries == CoverageFile.data.entries
        IN /\ Len(stdout) > 0
           /\ doc.kind = "report"
           /\ doc.threshold = config.threshold
           /\ Len(doc.files) = Cardinality(Listed)
           /\ PathsOf(doc.files) = { entries[i].key : i \in Listed }
           /\ \A j \in DOMAIN doc.files :
                 doc.files[j].linesPct = Lookup(entries, doc.files[j].path).lines.pct.n
           /\ \A i, j \in DOMAIN doc.files :
                 i < j => doc.files[i].linesPct <= doc.files[j].linesPct
           /\ doc.count = Len(doc.files)

C11_Witness ==
    /\ Reported
    /\ CoverageFile.data = LowSummary
    /\ config.threshold = JNum(1000)
    /\ stdout[Len(stdout)].count = 2
    /\ stdout[Len(stdout)].files[1].path = "src/a.ts"
    /\ stdout[Len(stdout)].files[2].path = "src/c.ts"

\* a document of the given kind and error text is on the stream
HasError(stream, text) ==
    \E i \in DOMAIN stream : stream[i].kind = "error" /\ stream[i].error = text

\* C12: when the resolved coverage path does not exist, reportCommand
\* returns 2 without parsing anything, and in JSON mode stdout holds
\* exactly the document with error "Coverage file not found" and the
\* resolved absolute path.
C12_NotFound ==
    (pc = "Done" /\ CoverageFile.state = "absent") =>
        /\ exitCode = 2
        /\ summary = Data("undefined", <<>>)
        /\ ~sortedFiles.done
        /\ ~HasError(stdout, "Failed to parse coverage file")
        /\ ~HasError(stderr, "Failed to parse coverage file")
        /\ coveragePath = resolvePath(config.coveragePath.s)
        /\ coveragePath \in CoveragePaths
        /\ JsonMode =>
              stdout = <<ErrorDoc(TRUE, "Coverage file not found", coveragePath, "")>>

C12_Witness ==
    /\ pc = "Done"
    /\ CoverageFile.state = "absent"
    /\ JsonMode
    /\ config.coveragePath = JStr("cfg/summary.json")
    /\ stdout[1].path = "/project/cfg/summary.json"
    /\ exitCode = 2

\* a value with a lines metric whose total, covered and pct are numbers
NumericLines(v) ==
    /\ v.t = "object" /\ v.lines.t = "object"
    /\ v.lines.total.t = "number" /\ v.lines.covered.t = "number" /\ v.lines.pct.t = "number"

\* the ways a coverage file that exists fails to parse
Unusable(f) ==
    \/ f.state \in {"unreadable", "badjson"}
    \/ f.data.top \notin {"object", "array"}
    \/ "total" \notin KeysOf(f.data.entries)
    \/ \E i \in DOMAIN f.data.entries : ~NumericLines(f.data.entries[i].value)

\* C13: every failure of parseCoverageSummary (file unreadable, not JSON,
\* not an object, total missing or invalid, a file entry invalid) makes
\* reportCommand return 2 with the parse-error report carrying the
\* failure; no file list is printed and the exit code is neither 0 nor 1.
C13_ParseFailure ==
    (pc = "Done" /\ CoverageFile.state # "absent" /\ Unusable(CoverageFile)) =>
        LET out == IF JsonMode THEN stdout ELSE stderr
            doc == out[Len(out)]
        IN /\ exitCode = 2
           /\ ~sortedFiles.done
           /\ \A i \in DOMAIN stdout : stdout[i].kind # "report"
           /\ Len(out) > 0
           /\ doc = ErrorDoc(JsonMode, "Failed to parse coverage file", "", doc.details)
           /\ doc.details \in {"ReadFailure", "ParseFailure", "InvalidShape",
                               "MissingTotal", "InvalidFileEntry"}

C13_Witness ==
    /\ pc = "Done"
    /\ CoverageFile.data = BrokenEntrySummary
    /\ ~JsonMode
    /\ exitCode = 2
    /\ stderr[Len(stderr)].details = "InvalidFileEntry"

\* C14: in JSON mode every way reportCommand ends leaves exactly one
\* document on stdout, a JSON document, and no free text; a failure's
\* document carries an error; verbose lines are on stderr only. In text
\* mode a failure is reported on stderr and leaves stdout empty.
C14_StreamDiscipline ==
    pc = "Done" =>
        /\ \A i \in DOMAIN stdout : stdout[i].kind # "verbose"
        /\ Verbose => \E i \in DOMAIN stderr : stderr[i].kind = "verbose"
        /\ IF JsonMode
           THEN /\ Len(stdout) = 1
                /\ stdout[1].json
                /\ stdout[1].kind \in {"report", "error"}
                /\ (exitCode = 2) <=> (stdout[1].kind = "error")
                /\ stdout[1].kind = "error" => stdout[1].error # ""
                /\ \A i \in DOMAIN stderr : stderr[i].kind = "verbose"
           ELSE exitCode = 2 =>
                   /\ stdout = <<>>
                   /\ \E i \in DOMAIN stderr : stderr[i].kind = "error"

C14_Witness ==
    /\ pc = "Done"
    /\ JsonMode
    /\ Verbose
    /\ exitCode = 2
    /\ stdout[1].error = "Failed to parse coverage file"
    /\ Len(stderr) = 4

----------------------------------------------------------------------------
(* Claims about validateCoverageSummary *)

NonNullObject(d) == d.top \in {"object", "array"}

\* the positions of the non-total keys whose value has no numeric lines
BadEntries(d) ==
    { i \in DOMAIN d.entries :
        d.entries[i].key # "total" /\ ~NumericLines(d.entries[i].value) }

Result(ok, err, key) == [done |-> TRUE, ok |-> ok, err |-> err, key |-> key]

\* C15: validateCoverageSummary fails with the invalid-shape error when
\* data is not a non-null object; otherwise with the missing-total error
\* when total is absent or its lines lacks a numeric total, covered or pct;
\* otherwise with the invalid-file-entry error naming the first non-total
\* key, in iteration order, whose lines is invalid; otherwise it succeeds.
C15_DecisionOrder ==
    validated.done =>
        IF ~NonNullObject(summary) THEN validated = Result(FALSE, "InvalidShape", "")
        ELSE IF ~NumericLines(Lookup(summary.entries, "total"))
        THEN validated = Result(FALSE, "MissingTotal", "")
        ELSE IF BadEntries(summary) # {}
        THEN validated =
               Result(FALSE, "InvalidFileEntry",
                      summary.entries[CHOOSE i \in BadEntries(summary) :
                                         \A j \in BadEntries(summary) : i <= j].key)
        ELSE validated = Result(TRUE, "", "")

C15_Witness ==
    /\ validated = Result(FALSE, "InvalidFileEntry", "src/b.ts")
    /\ Len(summary.entries) = 3
    /\ summary.entries[1].key = "src/b.ts"
    /\ summary.entries[2].key = "total"
    /\ summary.entries[3].key = "src/a.ts"
    /\ BadEntries(summary) = {1, 3}

\* an object whose only key is a fully valid total
OnlyTotal(d) ==
    /\ d.top = "object" /\ Len(d.entries) = 1
    /\ d.entries[1].key = "total" /\ NumericLines(d.entries[1].value)

\* C16, as claimed: null, a bare string, a number and an object lacking a
\* valid total.lines all fail with the missing-total error, and an object
\* whose only key is a fully valid total is accepted.
C16_MissingTotalForAll ==
    validated.done =>
        /\ (\/ summary.top \in {"null", "string", "number"}
            \/ summary.top = "object" /\ ~NumericLines(Lookup(summary.entries, "total")))
              => validated = Result(FALSE, "MissingTotal", "")
        /\ OnlyTotal(summary) => validated.ok

\* C16, amended: null, a bare string and a number fail with the
\* invalid-shape error, an object lacking a valid total.lines fails with
\* the missing-total error, and an object whose only key is a fully valid
\* total is accepted.
C16_RejectsByKind ==
    validated.done =>
        /\ summary.top \in {"null", "string", "number"}
              => validated = Result(FALSE, "InvalidShape", "")
        /\ (summary.top = "object" /\ ~NumericLines(Lookup(summary.entries, "total")))
              => validated = Result(FALSE, "MissingTotal", "")
        /\ OnlyTotal(summary) => validated.ok

C16_Witness ==
    /\ validated = Result(FALSE, "InvalidShape", "")
    /\ summary.top = "null"

----------------------------------------------------------------------------
(* Claims about src/utils/fs.ts *)

IsPrefix(p, q) == Len(p) <= Len(q) /\ SubSeq(q, 1, Len(p)) = p

\* the base directory and the target as absolute paths
ResolvedBase == resolve(Path(TRUE, Cwd), baseDir)
ResolvedTarget == resolve(baseDir, targetPath)

\* the target is the base directory or lies inside it
Inside == IsPrefix(ResolvedBase, ResolvedTarget)

\* C17: validatePath fails with the path-escape error exactly when the
\* resolved target lies outside baseDir; for every target that resolves
\* to baseDir or inside it, a name that merely begins with two dots
\* included, it returns the resolved absolute path.
C17_EscapeExactly ==
    checked.done =>
        /\ checked.threw <=> ~Inside
        /\ Inside => checked.value = ResolvedTarget

\* the path names a file outside the base directory
Escapes == ~Inside

FileBefore == IF AppendFile \in DOMAIN before.files THEN before.files[AppendFile] ELSE <<>>
FileNow == fsys.files[AppendFile]
LastLine == appended[Len(appended)]

\* C19, as claimed: appendLine creates a missing file with line + "\n";
\* on an existing file not ending with "\n" it writes "\n" and then
\* line + "\n"; on an existing file ending with "\n" it appends
\* line + "\n"; the previous content stays as a prefix.
C19_SeparatorUnlessNewline ==
    (outcome.done /\ outcome.err = "") =>
        /\ FileNow =
             IF AppendFile \notin DOMAIN before.files THEN LastLine \o <<LF>>
             ELSE IF ~endsWith(FileBefore, <<LF>>) THEN FileBefore \o <<LF>> \o LastLine \o <<LF>>
             ELSE FileBefore \o LastLine \o <<LF>>
        /\ IsPrefix(FileBefore, FileNow)

\* C19, amended: as claimed, except that an existing empty file is
\* appended to directly, like a file ending with "\n".
C19_SeparatorUnlessNewlineOrEmpty ==
    (outcome.done /\ outcome.err = "") =>
        /\ FileNow =
             IF AppendFile \notin DOMAIN before.files THEN LastLine \o <<LF>>
             ELSE IF FileBefore # <<>> /\ ~endsWith(FileBefore, <<LF>>)
             THEN FileBefore \o <<LF>> \o LastLine \o <<LF>>
             ELSE FileBefore \o LastLine \o <<LF>>
        /\ IsPrefix(FileBefore, FileNow)

C19_Witness ==
    /\ outcome.done /\ outcome.err = ""
    /\ call.count = 1
    /\ FileBefore = <<LF, "x">>
    /\ LastLine = <<"y", "x">>
    /\ FileNow = <<LF, "x", LF, "y", "x", LF>>

\* l1 + "\n" + ... + ln + "\n"
RECURSIVE LinesFrom(_, _)
LinesFrom(ls, i) == IF i > Len(ls) THEN <<>> ELSE ls[i] \o <<LF>> \o LinesFrom(ls, i + 1)

NoBlankLine(text) ==
    /\ text # <<>> => text[1] # LF
    /\ \A i \in 1..(Len(text) - 1) : ~(text[i] = LF /\ text[i + 1] = LF)

NewlineFree(line) == \A i \in DOMAIN line : line[i] # LF

InitiallyBlank ==
    \/ AppendFile \notin DOMAIN call.initial.files
    \/ call.initial.files[AppendFile] = <<>>

\* what the claim says of the file after the calls made so far
EndsWithOneNewline ==
    /\ endsWith(FileNow, LastLine \o <<LF>>)
    /\ ~endsWith(FileNow, <<LF, LF>>)
    /\ InitiallyBlank => (FileNow = LinesFrom(appended, 1) /\ NoBlankLine(FileNow))

\* C20, as claimed: after any sequence of appendLine calls with
\* newline-free lines l1..ln on a path initially absent, empty or holding
\* any text, the file ends with exactly one "\n" after ln, and when it
\* was absent or empty its content is l1 + "\n" + ... + ln + "\n" with no
\* blank line.
C20_OneLinePerCall ==
    (appended # <<>> /\ \A i \in DOMAIN appended : NewlineFree(appended[i]))
        => EndsWithOneNewline

\* C20, amended: the same for lines that are newline-free and not empty.
C20_OneLinePerNonEmptyCall ==
    (appended # <<>>
     /\ \A i \in DOMAIN appended : NewlineFree(appended[i]) /\ appended[i] # <<>>)
        => EndsWithOneNewline

C20_Witness ==
    /\ Len(appended) = 3
    /\ AppendFile \notin DOMAIN call.initial.files
    /\ appended = << <<"x">>, <<"y", "x">>, <<"x">> >>
    /\ FileNow = <<"x", LF, "y", "x", LF, "x", LF>>

----------------------------------------------------------------------------
(* Claims about invocations that run at the same time *)

\* what reportCommand(o) prints and returns when it runs alone on the
\* project directory as it is
Alone(o) ==
    LET cfg == loadConfig(Some(Obj(o.threshold, JUndef, o.fail, o.coveragePath)),
                          pkgJson, configFile).value
        path == resolvePath(cfg.coveragePath.s)
        parsed == parseCoverageSummary(disk[path])
        sorted == sortByPercentage(filterBelowThreshold(parsed.value, cfg.threshold.n)).output
        json == Truthy(o.json)
        Out(doc) == IF json THEN <<doc>> ELSE <<>>
        Err(docs) == IF json THEN <<>> ELSE docs
    IN IF ~fileExists(disk[path])
       THEN [stdout |-> Out(ErrorDoc(TRUE, "Coverage file not found", path, "")),
             stderr |-> Err(<<ErrorDoc(FALSE, "Coverage file not found", path, ""),
                              TextDoc("hint")>>),
             exitCode |-> 2]
       ELSE IF ~parsed.ok
       THEN [stdout |-> Out(ErrorDoc(TRUE, "Failed to parse coverage file", "", parsed.err)),
             stderr |-> Err(<<ErrorDoc(FALSE, "Failed to parse coverage file", "", parsed.err)>>),
             exitCode |-> 2]
       ELSE [stdout |-> <<IF json THEN formatReportJson(sorted, cfg.threshold)
                          ELSE formatReport(sorted, cfg.threshold)>>,
             stderr |-> <<>>,
             exitCode |-> IF Len(sorted) > 0 /\ cfg.failOnLow.b THEN 1 ELSE 0]

\* what an invocation has printed and returned
Produced(inv) == [stdout |-> inv.stdout, stderr |-> inv.stderr, exitCode |-> inv.exitCode]

\* C21: reportCommand writes nothing: package.json, uncov.config.json and
\* the coverage files are the same after every step of every invocation;
\* and each of two invocations interleaved at any step ends with the output
\* and the exit code it has when it runs alone
C21_ReadOnlyAndIsolated ==
    /\ [][fsVars' = fsVars]_vars
    /\ [](\A inv \in {Running, other} :
            inv.pc = "Done" => Produced(inv) = Alone(inv.options))

\* both invocations have finished and the first one is running again: it
\* printed a text report and returned 1, the other printed a JSON error
\* and returned 2
C21_Witness ==
    /\ active = 1
    /\ pc = "Done" /\ other.pc = "Done"
    /\ exitCode = 1 /\ other.exitCode = 2
    /\ Truthy(other.options.json) /\ ~Truthy(options.json)

----------------------------------------------------------------------------
(* Claims about the report formatters *)

Given_files == sortedFiles.value
Given_threshold == config.threshold

\* the text report is the single no-files line, or the header with the
\* threshold and the number of entries, an empty line, and then line i+2
\* the indented line of entry i
WellFormedReport(text) ==
    LET lines == SplitLines(text)
        n == Len(Given_files)
    IN IF n = 0
       THEN text = <<"No files at or below ">> \o TemplateNumber(Given_threshold)
                   \o <<"% line coverage.">>
       ELSE /\ Len(lines) = n + 2
            /\ lines[1] = <<"Files at or below ">> \o TemplateNumber(Given_threshold)
                          \o <<"% line coverage: ">> \o Digits(n)
            /\ lines[2] = <<>>
            /\ \A i \in 1..n :
                  /\ IsPrefix(<<SP, SP>>, lines[i + 2])
                  /\ lines[i + 2] = <<SP, SP>> \o formatPercent(Given_files[i].linesPct)
                        \o <<SP, SP>>
                        \o formatLines(Given_files[i].linesCovered, Given_files[i].linesTotal)
                        \o <<SP, SP, SP>> \o PathText(Given_files[i].path)

TextReports == { i \in DOMAIN stdout : stdout[i].kind = "report" /\ ~stdout[i].json }
JsonReports == { i \in DOMAIN stdout : stdout[i].kind = "report" /\ stdout[i].json }

\* C22 as stated: for every list of entries and every threshold the text
\* formatReport returns is the no-files line, or the header, a blank line
\* and exactly one indented line per entry in the order given
C22_OneLinePerEntry ==
    \A i \in TextReports : WellFormedReport(stdout[i].text)

SingleLinePaths ==
    \A i \in DOMAIN Given_files : \A j \in DOMAIN PathText(Given_files[i].path) :
        PathText(Given_files[i].path)[j] # LF

\* C22 amended: when no path has a line break in it, the text formatReport
\* returns is the no-files line, or the header, a blank line and exactly one
\* indented line per entry in the order given
C22_OneLinePerSingleLinePath ==
    \A i \in TextReports : SingleLinePaths => WellFormedReport(stdout[i].text)

\* a report of two entries, given with the higher percentage first, at
\* threshold 5.26: the header line, the blank line and two file lines
C22_Witness ==
    /\ TextReports # {}
    /\ SingleLinePaths
    /\ Len(Given_files) = 2
    /\ Given_files[1].linesPct = 10000 /\ Given_files[2].linesPct = 0
    /\ Given_threshold = JNum(526)
    /\ Len(SplitLines(stdout[1].text)) = 4

\* parsing the JSON report gives back the threshold, the number of
\* entries and every entry, field by field, in the order given
RoundTrip(text) ==
    LET parsed == JSONparse(text)
    IN /\ parsed.threshold = Given_threshold
       /\ parsed.count = JNum(100 * Len(Given_files))
       /\ Len(parsed.files) = Len(Given_files)
       /\ \A i \in DOMAIN Given_files :
             /\ parsed.files[i].path = JStr(Given_files[i].path)
             /\ parsed.files[i].linesPct = JNum(Given_files[i].linesPct)
             /\ parsed.files[i].linesCovered = JNum(Given_files[i].linesCovered)
             /\ parsed.files[i].linesTotal = JNum(Given_files[i].linesTotal)

----------------------------------------------------------------------------
(* Claims about initCommand *)

Force == runs.options.force
DryRun == runs.options.dryRun

\* package.json exists and parses
Readable(pkg) == pkg.state = "json"

ScriptsOf(pkg) == IF pkg.scripts.t = "object" THEN pkg.scripts.map ELSE <<>>

Printed(line) == \E i \in DOMAIN stdout : stdout[i] = line

\* the run is past step 2
ScriptsHandled == pc \in {"WritingConfig", "UpdatingGitignore", "Returned"}

\* C24: a dry run writes nothing, whatever the directory and the force
\* flag: the directory stays what it was; and when package.json exists
\* and parses the run does not throw and returns 0
C24_DryRunWritesNothing ==
    DryRun =>
        /\ project = runs.atStart
        /\ runs.writes = <<>>
        /\ Readable(project.pkg) => pc # "Thrown" /\ (pc = "Returned" => exitCode = 0)

\* a dry run with force has returned 0 in a writable directory where a
\* run would add both scripts, overwrite vitest.config.ts and append to
\* .gitignore
C24_Witness ==
    /\ DryRun /\ Force /\ ~project.readonly
    /\ pc = "Returned" /\ exitCode = 0
    /\ project.pkg.scripts.t = "undefined" /\ project.pkg.top = "object"
    /\ "vitest.config.ts" \in DOMAIN project.configs
    /\ project.gitignore = Gitignore("text", <<"node_modules">>)
    /\ Printed(Line("would-overwrite-config", "vitest.config.ts"))

\* the scripts package.json had when the run began keep their commands,
\* package.json is written only when a script was added, and the config
\* files that existed keep their content
NothingOverwritten ==
    /\ \A n \in DOMAIN ScriptsOf(runs.atStart.pkg) :
          /\ n \in DOMAIN ScriptsOf(project.pkg)
          /\ ScriptsOf(project.pkg)[n] = ScriptsOf(runs.atStart.pkg)[n]
    /\ (\E i \in DOMAIN runs.writes : runs.writes[i] = "package.json")
          => \E j \in DOMAIN SCRIPTS_TO_ADD : Printed(Line("added-script", SCRIPTS_TO_ADD[j][1]))
    /\ \A f \in DOMAIN runs.atStart.configs :
          f \in DOMAIN project.configs /\ project.configs[f] = runs.atStart.configs[f]

\* every script of SCRIPTS_TO_ADD that package.json had is reported as
\* skipped once step 2 is done
ExistingReportedSkipped ==
    ScriptsHandled =>
        \A j \in DOMAIN SCRIPTS_TO_ADD :
            SCRIPTS_TO_ADD[j][1] \in DOMAIN ScriptsOf(runs.atStart.pkg)
                => Printed(Line("skipped-script", SCRIPTS_TO_ADD[j][1]))

\* C25: without force initCommand overwrites nothing: a script that exists
\* keeps its command and is reported as skipped, package.json is written
\* only when a script was added, an existing vitest or vite config keeps
\* its content; vitest.config.ts is rewritten only with force
C25_NeverOverwrites ==
    /\ ~Force => NothingOverwritten /\ ExistingReportedSkipped
    /\ ("vitest.config.ts" \in DOMAIN runs.atStart.configs
           /\ \E i \in DOMAIN runs.writes : runs.writes[i] = "vitest.config.ts") => Force

\* the same, the report of skipped scripts being looked at outside dry
\* runs only
C25_NeverOverwritesReportedOutsideDryRun ==
    /\ ~Force => NothingOverwritten /\ (~DryRun => ExistingReportedSkipped)
    /\ ("vitest.config.ts" \in DOMAIN runs.atStart.configs
           /\ \E i \in DOMAIN runs.writes : runs.writes[i] = "vitest.config.ts") => Force

\* a dry run without force is past step 2 in a project that has the
\* script test:coverage
C25_DryRunOverExistingScript ==
    /\ ~Force /\ DryRun /\ ScriptsHandled
    /\ "test:coverage" \in DOMAIN ScriptsOf(runs.atStart.pkg)

----------------------------------------------------------------------------
(* Claims about the course of a run *)

\* the place of a stage in the pipeline
Rank(stage) ==
    CASE stage = "LoadingConfig" -> 1
      [] stage = "ResolvingPath" -> 2
      [] stage = "CheckingExistence" -> 3
      [] stage = "Parsing" -> 4
      [] stage = "Filtering" -> 5
      [] stage = "Formatting" -> 6
      [] stage = "Done" -> 7
      [] OTHER -> 0

InPipeline == Rank(pc) \in 1..6

\* C26: reportCommand goes through LoadingConfig, ResolvingPath,
\* CheckingExistence, Parsing, Filtering, Formatting to Done: every step
\* leads to a later stage, a run that has started always reaches Done,
\* Parsing is reached only when the coverage file exists, Filtering and
\* Formatting only when it parsed into a usable summary, and the run has
\* no exit code before Done and exactly one of 0, 1, 2 at Done
C26_LinearPipeline ==
    /\ [][InPipeline => Rank(pc') > Rank(pc)]_pc
    /\ (pc = "LoadingConfig") ~> (pc = "Done")
    /\ [](pc = "Parsing" => CoverageFile.state # "absent")
    /\ [](pc \in {"Filtering", "Formatting"} =>
            /\ CoverageFile.state # "absent"
            /\ ~Unusable(CoverageFile)
            /\ summary = CoverageFile.data)
    /\ [](InPipeline => exitCode = -1)
    /\ [](pc = "Done" => exitCode \in {0, 1, 2})
    /\ [][pc = "Done" => exitCode' = exitCode]_vars

\* a run from the command line has gone all the way to Done and returned 1
C26_Witness ==
    /\ entry = "cli" /\ pc = "Done" /\ exitCode = 1
    /\ sortedFiles.done /\ Len(stdout) = 1 /\ stdout[1].kind = "report"

----------------------------------------------------------------------------
(* Claims about what the validator returns *)

\* C27: when validateCoverageSummary succeeds it returns the value it was
\* given, with every key in its place and every member of every entry,
\* the unchecked ones (skipped, statements, functions, branches) included
C27_ReturnsInput ==
    validated.done /\ validated.ok => returned = Done(summary)

\* a summary with an entry that carries unchecked members has been
\* validated and returned
C27_Witness ==
    /\ validated.done /\ validated.ok /\ returned.done
    /\ Len(summary.entries) = 3
    /\ summary.entries[1].key = "src/b.ts" /\ summary.entries[1].value = FullCov
    /\ summary.entries[2].key = "total"
    /\ returned.value.entries[1].value.branches.t = "string"

----------------------------------------------------------------------------
(* Claims about configurations as values *)

\* what a configuration says when its exclude reference is followed in heap
Deref(heap, c) == [c EXCEPT !.exclude = JArr(heap[c.exclude.n])]

\* what a call returns by the documentation: the merge of the values of
\* its sources over the defaults as they are written in config.ts
Documented(c) ==
    IF c.fn = "mergeConfigs" THEN mergeConfigs(c.args)
    ELSE loadConfig(IF c.args = <<>> THEN None ELSE Some(c.args[1]), c.pkg, c.cfg).value

Called == Len(calls') = Len(calls) + 1

\* C28: configurations are independent values. A call of mergeConfigs or
\* loadConfig changes no array that existed before it, so neither the
\* default nor a partial; the exclude list of a configuration it returns is
\* neither the array of DEFAULT_CONFIG nor an array passed in a partial;
\* the exclude list of DEFAULT_CONFIG stays empty whatever a caller does to
\* the configurations it was given back; and every call returns what the
\* values of its sources and the written defaults give
C28_IndependentConfigs ==
    /\ [][Called => \A a \in DOMAIN arrays : arrays'[a] = arrays[a]]_vars
    /\ [](\A i \in 1..Len(calls) :
            calls[i].config.exclude.n \notin {DefaultExclude} \cup passed)
    /\ [](DefaultExclude \in DOMAIN arrays => arrays[DefaultExclude] = DEFAULT_CONFIG.exclude.l)
    /\ [][Called => Deref(arrays', calls'[Len(calls')].config) = Documented(calls'[Len(calls')])]_vars

----------------------------------------------------------------------------
(* Claims about a coverage file that changes under reportCommand *)

\* the last thing written to the stream is the error report of a failed
\* parse; in JSON mode the string printed parses to an object with the
\* members error and details
ParseErrorReported ==
    LET stream == IF JsonMode THEN stdout ELSE stderr
        doc == stream[Len(stream)]
    IN /\ stream # <<>>
       /\ doc.kind = "error" /\ doc.json = JsonMode
       /\ doc.error = "Failed to parse coverage file"
       /\ JsonMode =>
             /\ DOMAIN JSONparse(doc.text) = {"error", "details"}
             /\ JSONparse(doc.text).error = JStr("Failed to parse coverage file")
             /\ JSONparse(doc.text).details.t = "string"
             /\ stderr = <<>>

NoFileList(stream) == \A i \in DOMAIN stream : stream[i].kind # "report"

\* C30: when another process removes or spoils the coverage file between
\* the existence test and the read, reportCommand still comes to its end,
\* returns 2 and has written the parse-error report (in JSON mode a string
\* that parses to the error object); it never throws, never goes on to
\* filter and never prints a file list
C30_InterferenceReported ==
    /\ [](pc # "Thrown")
    /\ [](interfered => pc \in {"Parsing", "Done"})
    /\ [](interfered => NoFileList(stdout) /\ NoFileList(stderr))
    /\ [](interfered /\ pc = "Done" => exitCode = 2 /\ ParseErrorReported)
    /\ interfered ~> (pc = "Done")

\* a run in JSON mode found a valid summary with files below the threshold,
\* the file was removed before the read, and the run ended with code 2 and
\* the error object alone on stdout
C30_Witness ==
    /\ interfered /\ pc = "Done" /\ exitCode = 2
    /\ JsonMode /\ Len(stdout) = 1 /\ stdout[1].kind = "error"
    /\ JSONparse(stdout[1].text).details = JStr(stdout[1].details)
    /\ disk[coveragePath] = AbsentCov

====
